---- MODULE Spec2Model ----
\* Board-mode fan control daemon (fancontrol): temperature sources, demand and
\* safety policy, PWM ramp, and the ownership / control-loop lifecycle.
EXTENDS Integers, Sequences, FiniteSets, TLC

\* ---------------------------------------------------------------------------
\* Bounds of the model
\* ---------------------------------------------------------------------------
\* Resolution of the monotonic clock: model ticks per second.
TicksPerSec == 2
\* Last clock value (in model ticks) explored by the sampling specification.
MaxTime == 8
\* Cap of the counter of consecutive all-stale control ticks.
MaxStaleRun == 3
\* Oldest sample age (in model ticks) drawn as an input of a single decision.
MaxAgeTicks == 6

\* ---------------------------------------------------------------------------
\* Configuration (BoardConfig / BoardSourceConfig)
\* ---------------------------------------------------------------------------
SourceOrder == <<"soc", "modem">>
SourceIds == {SourceOrder[i] : i \in 1..Len(SourceOrder)}

\* Temperatures a live sample can report (milli-Celsius): below every start
\* threshold, and between the start and full thresholds of both sources.
Temps == {40000, 71000}

source_soc(ttl) ==
    [type |-> "sysfs", t_start_mC |-> 60000, t_full_mC |-> 82000, t_crit_mC |-> 90000,
     ttl_sec |-> ttl, poll_sec |-> 1, weight |-> 100]

source_modem(ttl) ==
    [type |-> "ubus", t_start_mC |-> 58000, t_full_mC |-> 76000, t_crit_mC |-> 85000,
     ttl_sec |-> ttl, poll_sec |-> 1, weight |-> 130]

board_config(mode, lo, hi, fs, ttlSoc, ttlModem) ==
    [interval_sec |-> 1, control_mode |-> mode,
     pwm_min |-> lo, pwm_max |-> hi, failsafe_pwm |-> fs,
     ramp_up |-> 2, ramp_down |-> 3, hysteresis_mC |-> 2000,
     sources |-> [id \in SourceIds |->
                    IF id = "soc" THEN source_soc(ttlSoc) ELSE source_modem(ttlModem)]]

\* Accepted configurations explored by the sampling specification: both PWM
\* directions, ttl == poll and ttl > poll.
PolicyConfigs ==
    { board_config("user", 0, 255, 64, 1, 2),
      board_config("user", 255, 0, 64, 1, 1) }

\* Inputs of a single decision: temperatures at and around the thresholds
\* (90000 is t_crit of soc; 84999 is at full demand of both but below t_crit).
DecisionTemps == {40000, 71000, 84999, 90000}

\* Accepted configurations for a single decision: both PWM directions, a
\* fail-safe level inside and outside the actuator bounds, an empty span.
DecisionConfigs ==
    { board_config("user", 0, 255, 64, 1, 2),
      board_config("user", 255, 0, 64, 1, 1),
      board_config("kernel", 50, 200, 20, 2, 1),
      board_config("user", 200, 50, 230, 1, 2),
      board_config("kernel", 100, 100, 64, 1, 1) }

\* ---------------------------------------------------------------------------
\* Demand policy (demand_policy.cpp)
\* ---------------------------------------------------------------------------
Min2(a, b) == IF a < b THEN a ELSE b
Max2(a, b) == IF a > b THEN a ELSE b
Abs(a) == IF a < 0 THEN -a ELSE a

min_cooling_pwm(c) == c.pwm_min

max_cooling_pwm(c) == c.pwm_max

\* Faulty variant: the value is passed on without bounding it.
clamp_pwm_unbounded(c, pwm) == pwm

clamp_pwm(c, pwm) ==
    LET lo == Min2(c.pwm_min, c.pwm_max)
        hi == Max2(c.pwm_min, c.pwm_max)
    IN  IF pwm < lo THEN lo ELSE IF pwm > hi THEN hi ELSE pwm

\* Faulty variant: the larger register value always counts as stronger.
is_stronger_cooling_pwm_numeric(candidate, baseline, c) ==
    clamp_pwm(c, candidate) > clamp_pwm(c, baseline)

is_stronger_cooling_pwm(candidate, baseline, c) ==
    LET bounded_candidate == clamp_pwm(c, candidate)
        bounded_baseline == clamp_pwm(c, baseline)
        span == c.pwm_max - c.pwm_min
        dir == IF span > 0 THEN 1 ELSE -1
    IN  IF span = 0 THEN FALSE
        ELSE (bounded_candidate - c.pwm_min) * dir > (bounded_baseline - c.pwm_min) * dir

stronger_cooling_pwm(lhs, rhs, c) ==
    IF is_stronger_cooling_pwm(rhs, lhs, c) THEN rhs ELSE lhs

\* std::lround of the rational num / den (den > 0): halves round away from zero.
\* Faulty variant: the fraction is cut off instead of rounded.
lround_truncating(num, den) ==
    IF num >= 0 THEN num \div den ELSE -((-num) \div den)

lround(num, den) ==
    IF num >= 0 THEN (2 * num + den) \div (2 * den)
    ELSE -((2 * (-num) + den) \div (2 * den))

\* ratio = clamp((temp - t_start) / (t_full - t_start), 0, 1) * weight / 100,
\* clamped to [0, 1]; returned as numerator over RatioDen(s).
RatioDen(s) == (s.t_full_mC - s.t_start_mC) * 100

RatioNum(s, temp_mC) ==
    LET base == IF temp_mC <= s.t_start_mC THEN 0
                ELSE IF temp_mC >= s.t_full_mC THEN s.t_full_mC - s.t_start_mC
                ELSE temp_mC - s.t_start_mC
    IN  Min2(base * s.weight, RatioDen(s))

\* Faulty variant: an inactive source needs more than t_start + hysteresis.
demand_from_source_on_gt(c, s, temp_mC, active) ==
    LET idle_pwm == min_cooling_pwm(c)
        full_pwm == max_cooling_pwm(c)
        on_threshold == s.t_start_mC + c.hysteresis_mC
        off_threshold == s.t_start_mC - c.hysteresis_mC
        span == c.pwm_max - c.pwm_min
        demand == c.pwm_min + lround(RatioNum(s, temp_mC) * span, RatioDen(s))
    IN  IF temp_mC >= s.t_crit_mC
        THEN [demand |-> full_pwm, active |-> TRUE, critical |-> TRUE]
        ELSE IF ~active /\ temp_mC <= on_threshold
        THEN [demand |-> idle_pwm, active |-> FALSE, critical |-> FALSE]
        ELSE IF active /\ temp_mC <= off_threshold
        THEN [demand |-> idle_pwm, active |-> FALSE, critical |-> FALSE]
        ELSE [demand |-> clamp_pwm(c, demand), active |-> TRUE, critical |-> FALSE]

\* Faulty variant: a critical check that misses the boundary temp == t_crit.
demand_from_source_crit_gt(c, s, temp_mC, active) ==
    LET idle_pwm == min_cooling_pwm(c)
        full_pwm == max_cooling_pwm(c)
        on_threshold == s.t_start_mC + c.hysteresis_mC
        off_threshold == s.t_start_mC - c.hysteresis_mC
        span == c.pwm_max - c.pwm_min
        demand == c.pwm_min + lround(RatioNum(s, temp_mC) * span, RatioDen(s))
    IN  IF temp_mC > s.t_crit_mC
        THEN [demand |-> full_pwm, active |-> TRUE, critical |-> TRUE]
        ELSE IF ~active /\ temp_mC < on_threshold
        THEN [demand |-> idle_pwm, active |-> FALSE, critical |-> FALSE]
        ELSE IF active /\ temp_mC <= off_threshold
        THEN [demand |-> idle_pwm, active |-> FALSE, critical |-> FALSE]
        ELSE [demand |-> clamp_pwm(c, demand), active |-> TRUE, critical |-> FALSE]

demand_from_source(c, s, temp_mC, active) ==
    LET idle_pwm == min_cooling_pwm(c)
        full_pwm == max_cooling_pwm(c)
        on_threshold == s.t_start_mC + c.hysteresis_mC
        off_threshold == s.t_start_mC - c.hysteresis_mC
        span == c.pwm_max - c.pwm_min
        demand == c.pwm_min + lround(RatioNum(s, temp_mC) * span, RatioDen(s))
    IN  IF temp_mC >= s.t_crit_mC
        THEN [demand |-> full_pwm, active |-> TRUE, critical |-> TRUE]
        ELSE IF ~active /\ temp_mC < on_threshold
        THEN [demand |-> idle_pwm, active |-> FALSE, critical |-> FALSE]
        ELSE IF active /\ temp_mC <= off_threshold
        THEN [demand |-> idle_pwm, active |-> FALSE, critical |-> FALSE]
        ELSE [demand |-> clamp_pwm(c, demand), active |-> TRUE, critical |-> FALSE]

\* ---------------------------------------------------------------------------
\* Program state
\* ---------------------------------------------------------------------------
VARIABLES
    cfg,          \* the loaded BoardConfig
    now,          \* steady clock, in model ticks
    src,          \* per source: has_polled, last_sample, last_good_sample
    unit,         \* per source sampling unit: pc, next_deadline, start_ts
    failSince,    \* per source: start of the current run of failed samples, or -1
    active,       \* active_state of the control loop (hysteresis flags)
    nextTickAt,   \* clock value at which the control loop wakes for its next tick
    lastTick,     \* inputs and outputs of the most recent control tick
    staleRun      \* number of consecutive ticks with every source timed out

policyVars == <<cfg, now, src, unit, failSince, active, nextTickAt, lastTick, staleRun>>

VARIABLES
    hw,           \* hardware registers: pwm, pwm_enable, control mode
    files,        \* /var/run: the pidfile and the runtime-status file
    proc          \* per daemon process: position, flags, guards, loop locals

daemonVars == <<hw, files, proc>>

\* The latest call of a function checked on its own: its name, its arguments
\* and what it returned.
VARIABLE call

NoCall == [fn |-> "none"]

vars == <<policyVars, daemonVars, call>>

\* std::optional<TempSample> is a sequence of length 0 or 1.
NoSample == <<>>

TempSample(ok, temp_mC, ts) == [ok |-> ok, temp_mC |-> temp_mC, sample_ts |-> ts]

\* ---------------------------------------------------------------------------
\* Temperature sources (temp_source.cpp)
\* ---------------------------------------------------------------------------
\* Faulty variant: a failed sample clears last_good_sample.
store_sample_clears_good(st, sample) ==
    [has_polled |-> TRUE,
     last_sample |-> <<sample>>,
     last_good_sample |-> IF sample.ok THEN <<sample>> ELSE NoSample]

\* store_sample: last_sample always replaced, last_good_sample only on success.
store_sample(st, sample) ==
    [has_polled |-> TRUE,
     last_sample |-> <<sample>>,
     last_good_sample |-> IF sample.ok THEN <<sample>> ELSE st.last_good_sample]

\* snapshot(): a copy of the three fields taken under the sample mutex.
snapshot(st) ==
    [has_polled |-> st.has_polled,
     last_sample |-> st.last_sample,
     last_good_sample |-> st.last_good_sample]

\* Remote call timeout: the poll interval clamped to 1..10 seconds, in ticks.
ubus_timeout(poll_sec) ==
    (IF poll_sec < 1 THEN 1 ELSE IF poll_sec > 10 THEN 10 ELSE poll_sec) * TicksPerSec

\* Faulty variant: the deadline advances by one interval, missed deadlines
\* are not skipped.
next_deadline_after_no_skip(deadline, interval, t) == deadline + interval

\* Drift correction of run_source_loop: the deadline after a sample that ended
\* at clock value t.
next_deadline_after(deadline, interval, t) ==
    LET d == deadline + interval
    IN  IF d <= t THEN d + interval * (((t - d) \div interval) + 1) ELSE d

PollTicks(id) == cfg.sources[id].poll_sec * TicksPerSec

\* History: the start of the current run of consecutive failed samples.
FailSinceAfter(id, sample) ==
    IF sample.ok THEN -1
    ELSE IF failSince[id] = -1 THEN sample.sample_ts ELSE failSince[id]

\* SysfsTempSource::sample, one iteration of run_source_loop: the read is
\* immediate, the sample is stamped and stored at the same clock value.
SampleSysfs(id, ok, temp) ==
    /\ cfg.sources[id].type = "sysfs"
    /\ unit[id].pc = "wait"
    /\ unit[id].next_deadline <= now
    /\ LET s == TempSample(ok, IF ok THEN temp ELSE 0, now)
       IN  /\ src' = [src EXCEPT ![id] = store_sample(@, s)]
           /\ failSince' = [failSince EXCEPT ![id] = FailSinceAfter(id, s)]
    /\ unit' = [unit EXCEPT ![id].next_deadline =
                    next_deadline_after(@, PollTicks(id), now)]
    /\ UNCHANGED <<cfg, now, active, nextTickAt, lastTick, staleRun, daemonVars, call>>

\* UbusTempSource::sample, first half: the sample is stamped, the call starts.
SampleBegin(id) ==
    /\ cfg.sources[id].type = "ubus"
    /\ unit[id].pc = "wait"
    /\ unit[id].next_deadline <= now
    /\ unit' = [unit EXCEPT ![id].pc = "sampling", ![id].start_ts = now]
    /\ UNCHANGED <<cfg, now, src, failSince, active, nextTickAt, lastTick, staleRun, daemonVars, call>>

\* UbusTempSource::sample, second half: the call returned (or timed out), the
\* sample is stored with the stamp taken at the start; then the next deadline.
SampleEnd(id, ok, temp) ==
    /\ unit[id].pc = "sampling"
    /\ LET s == TempSample(ok, IF ok THEN temp ELSE 0, unit[id].start_ts)
       IN  /\ src' = [src EXCEPT ![id] = store_sample(@, s)]
           /\ failSince' = [failSince EXCEPT ![id] = FailSinceAfter(id, s)]
    /\ unit' = [unit EXCEPT ![id].pc = "wait",
                            ![id].next_deadline =
                                next_deadline_after(@, PollTicks(id), now)]
    /\ UNCHANGED <<cfg, now, active, nextTickAt, lastTick, staleRun, daemonVars, call>>

\* ---------------------------------------------------------------------------
\* Safety guard (safety_guard.cpp): compute_target_decision
\* ---------------------------------------------------------------------------
\* duration_cast<seconds>: the age of a sample in whole seconds, truncated.
age_sec(tnow, sample) == (tnow - sample.sample_ts) \div TicksPerSec

\* The staleness test of one source in one tick.
source_timeout(s, snap, tnow) ==
    IF snap.last_good_sample # NoSample
    THEN age_sec(tnow, snap.last_good_sample[1]) > s.ttl_sec
    ELSE IF snap.last_sample # NoSample
    THEN snap.has_polled /\ age_sec(tnow, snap.last_sample[1]) > s.ttl_sec
    ELSE snap.has_polled

NoDemand(activeIn) ==
    [valid |-> FALSE, timeout |-> FALSE, demand_pwm |-> 0,
     active |-> activeIn, critical |-> FALSE, using_last_good |-> FALSE]

\* Faulty variant: a stale source is not skipped, its last-known-good value
\* still yields a demand.
source_step_uses_stale(c, s, snap, tnow, activeIn) ==
    IF snap.last_good_sample = NoSample
    THEN [NoDemand(activeIn) EXCEPT !.timeout = source_timeout(s, snap, tnow)]
    ELSE LET d == demand_from_source(c, s, snap.last_good_sample[1].temp_mC, activeIn)
         IN  [valid |-> TRUE, timeout |-> source_timeout(s, snap, tnow),
              demand_pwm |-> d.demand, active |-> d.active, critical |-> d.critical,
              using_last_good |-> snap.last_sample = NoSample \/ ~snap.last_sample[1].ok]

\* Faulty variant: a source whose latest sample failed yields no demand.
source_step_needs_fresh(c, s, snap, tnow, activeIn) ==
    IF source_timeout(s, snap, tnow)
    THEN [NoDemand(activeIn) EXCEPT
            !.timeout = TRUE,
            !.using_last_good = snap.last_good_sample # NoSample
                                /\ (snap.last_sample = NoSample \/ ~snap.last_sample[1].ok)]
    ELSE IF snap.last_good_sample = NoSample \/ ~snap.last_sample[1].ok
    THEN NoDemand(activeIn)
    ELSE LET d == demand_from_source(c, s, snap.last_good_sample[1].temp_mC, activeIn)
         IN  [valid |-> TRUE, timeout |-> FALSE,
              demand_pwm |-> d.demand, active |-> d.active, critical |-> d.critical,
              using_last_good |-> FALSE]

\* The body of the per-source loop: what one source contributes in one tick.
source_step(c, s, snap, tnow, activeIn) ==
    IF source_timeout(s, snap, tnow)
    THEN [NoDemand(activeIn) EXCEPT
            !.timeout = TRUE,
            !.using_last_good = snap.last_good_sample # NoSample
                                /\ (snap.last_sample = NoSample \/ ~snap.last_sample[1].ok)]
    ELSE IF snap.last_good_sample = NoSample
    THEN NoDemand(activeIn)
    ELSE LET d == demand_from_source(c, s, snap.last_good_sample[1].temp_mC, activeIn)
         IN  [valid |-> TRUE, timeout |-> FALSE,
              demand_pwm |-> d.demand, active |-> d.active, critical |-> d.critical,
              using_last_good |-> snap.last_sample = NoSample \/ ~snap.last_sample[1].ok]

\* Folding the sources, in the order of the manager's runtimes.
RECURSIVE fold_sources(_, _, _, _, _, _)
fold_sources(c, order, snaps, tnow, act, acc) ==
    IF order = <<>> THEN acc
    ELSE LET id == Head(order)
             r == source_step(c, c.sources[id], snaps[id], tnow, act[id])
             acc2 == [target_pwm |-> IF r.valid
                                     THEN stronger_cooling_pwm(acc.target_pwm, r.demand_pwm, c)
                                     ELSE acc.target_pwm,
                      any_valid |-> acc.any_valid \/ r.valid,
                      any_timeout |-> acc.any_timeout \/ r.timeout,
                      critical |-> acc.critical \/ r.critical,
                      active |-> [acc.active EXCEPT ![id] = r.active],
                      telemetry |-> [acc.telemetry EXCEPT ![id] = r]]
         IN  fold_sources(c, Tail(order), snaps, tnow, act, acc2)

\* The overrides applied after the fold, in the order of the source.
\* Faulty variant: total blindness falls back to the folded (idle) target.
final_target_no_blind(c, folded) ==
    LET t1 == IF folded.critical THEN max_cooling_pwm(c) ELSE folded.target_pwm
        t3 == IF folded.any_timeout
              THEN stronger_cooling_pwm(t1, clamp_pwm(c, c.failsafe_pwm), c)
              ELSE t1
    IN  clamp_pwm(c, t3)

\* Faulty variant: a timeout clamps the target to the fail-safe level.
final_target_clamp_failsafe(c, folded) ==
    LET t1 == IF folded.critical THEN max_cooling_pwm(c) ELSE folded.target_pwm
        t2 == IF ~folded.any_valid THEN max_cooling_pwm(c) ELSE t1
        t3 == IF folded.any_timeout /\ ~folded.critical /\ folded.any_valid
              THEN clamp_pwm(c, c.failsafe_pwm)
              ELSE t2
    IN  clamp_pwm(c, t3)

\* Faulty variant: no fail-safe floor while some source is still valid.
final_target_no_floor(c, folded) ==
    LET t1 == IF folded.critical THEN max_cooling_pwm(c) ELSE folded.target_pwm
        t2 == IF ~folded.any_valid THEN max_cooling_pwm(c) ELSE t1
    IN  clamp_pwm(c, t2)

final_target(c, folded) ==
    LET t1 == IF folded.critical THEN max_cooling_pwm(c) ELSE folded.target_pwm
        t2 == IF ~folded.any_valid THEN max_cooling_pwm(c) ELSE t1
        t3 == IF folded.any_timeout
              THEN stronger_cooling_pwm(t2, clamp_pwm(c, c.failsafe_pwm), c)
              ELSE t2
    IN  clamp_pwm(c, t3)

compute_target_decision(c, snaps, tnow, act) ==
    LET start == [target_pwm |-> min_cooling_pwm(c), any_valid |-> FALSE,
                  any_timeout |-> FALSE, critical |-> FALSE,
                  active |-> act,
                  telemetry |-> [id \in SourceIds |-> NoDemand(act[id])]]
        folded == fold_sources(c, SourceOrder, snaps, tnow, act, start)
    IN  [decision |-> [target_pwm |-> final_target(c, folded),
                       any_valid |-> folded.any_valid,
                       any_timeout |-> folded.any_timeout,
                       critical |-> folded.critical],
         active |-> folded.active,
         telemetry |-> folded.telemetry]

\* ---------------------------------------------------------------------------
\* Arithmetic of the ramp credits (double, pwm_controller.hpp)
\* ---------------------------------------------------------------------------
\* A credit is an IEEE 754 binary64 value: 53 significant bits, results
\* rounded to nearest, ties to even. The values in play are not negative, zero
\* or at least 2^-7 (one tick is worth at least that for ramp times up to
\* 127 s) and below 2^13, hence multiples of 2^-60. A value is kept in four
\* limbs of 20 bits, d = d[4] + d[3] / Limb + d[2] / Limb^2 + d[1] / Limb^3.
Mantissa == 53
LimbBits == 20

RECURSIVE Pow2(_)
Pow2(k) == IF k = 0 THEN 1 ELSE 2 * Pow2(k - 1)

Limb == Pow2(LimbBits)

DoubleZero == <<0, 0, 0, 0>>

RECURSIVE BitLength(_)
BitLength(n) == IF n = 0 THEN 0 ELSE 1 + BitLength(n \div 2)

\* Position of the leading 1 counted from the lowest bit of d[1], 0 for zero.
TopBit(d) ==
    IF d[4] > 0 THEN 3 * LimbBits + BitLength(d[4])
    ELSE IF d[3] > 0 THEN 2 * LimbBits + BitLength(d[3])
    ELSE IF d[2] > 0 THEN LimbBits + BitLength(d[2])
    ELSE BitLength(d[1])

\* Limbs of up to twice their range brought back into range.
Carry(d) ==
    LET c1 == d[1] \div Limb
        c2 == (d[2] + c1) \div Limb
        c3 == (d[3] + c2) \div Limb
    IN  <<d[1] % Limb, (d[2] + c1) % Limb, (d[3] + c2) % Limb, d[4] + c3>>

\* The double nearest to the exact value d (plus less than 2^-60 when
\* sticky): ties go to the neighbour whose last bit is 0.
RoundToDouble(d, sticky) ==
    LET drop == TopBit(d) - Mantissa
        ulp == Pow2(drop)
        low == d[1] % ulp
        half == ulp \div 2
        odd == IF drop = LimbBits THEN d[2] % 2 = 1 ELSE (d[1] \div ulp) % 2 = 1
        up == low > half \/ (low = half /\ (sticky \/ odd))
    IN  IF drop <= 0 THEN d
        ELSE IF up THEN Carry(<<d[1] - low + ulp, d[2], d[3], d[4]>>)
        ELSE <<d[1] - low, d[2], d[3], d[4]>>

\* static_cast<double>(num) / static_cast<double>(den) for small integers,
\* by long division limb after limb.
DoubleQuotient(num, den) ==
    LET r0 == num % den
        r1 == (r0 * Limb) % den
        r2 == (r1 * Limb) % den
        r3 == (r2 * Limb) % den
    IN  RoundToDouble(<<(r2 * Limb) \div den, (r1 * Limb) \div den,
                        (r0 * Limb) \div den, num \div den>>, r3 # 0)

\* a + b of two doubles.
DoubleAdd(a, b) ==
    RoundToDouble(Carry(<<a[1] + b[1], a[2] + b[2], a[3] + b[3], a[4] + b[4]>>), FALSE)

\* static_cast<int>(std::floor(x))
DoubleFloor(d) == d[4]

\* x - floor(x), which is exact.
DoubleFraction(d) == <<d[1], d[2], d[3], 0>>

\* RampAccumulator {}
NoCredit == [stronger |-> DoubleZero, weaker |-> DoubleZero]

\* ---------------------------------------------------------------------------
\* Daemon processes: state before any instance is started
\* ---------------------------------------------------------------------------
Procs == {1, 2}

NoDecision ==
    [target_pwm |-> 0, any_valid |-> FALSE, any_timeout |-> FALSE, critical |-> FALSE]

NoRegs == [mode |-> "", enable |-> -1]

ProcInit ==
    [pc |-> "idle",
     g_stop |-> 0, g_restore_status |-> 0, exit_code |-> -1,
     \* BoardOwnershipGuard members
     lock_held |-> FALSE, pidfile_guard |-> FALSE,
     control_armed |-> FALSE, armed |-> FALSE,
     has_enable |-> FALSE, orig_enable |-> <<>>,
     has_mode |-> FALSE, orig_mode |-> <<>>,
     status_guard |-> FALSE,
     \* locals of run_board_mode
     mgr_running |-> FALSE, current_pwm |-> 0,
     credit |-> NoCredit,
     active |-> [id \in SourceIds |-> FALSE],
     decision |-> NoDecision,
     \* history
     thrown |-> FALSE,        \* the process is unwinding an exception
     failedAt |-> "none",     \* position at which the exception was thrown
     lastSig |-> "none",      \* last signal seen by on_signal
     trace |-> <<>>,          \* decision, PWM read-back, ramp and PWM write of the current tick
     observed |-> <<>>,       \* value the read-back of the current tick returned, if any
     wrote |-> {},            \* resources this process has modified
     pre |-> NoRegs,          \* registers when the process took the instance lock
     restoreFailed |-> FALSE, \* a register write of the restoration failed
     lockRefused |-> FALSE,   \* the instance lock was held by another process
     atExit |-> NoRegs]       \* registers when the process exited

DaemonIdle ==
    /\ hw = [pwm |-> 0, enable |-> 2, mode |-> "enabled", has_enable |-> TRUE]
    /\ files = [pidfile |-> 0, status |-> 0]
    /\ proc = [p \in Procs |-> ProcInit]

\* ---------------------------------------------------------------------------
\* The control loop's tick over live sources, and the passage of time
\* ---------------------------------------------------------------------------
Unpolled == [has_polled |-> FALSE, last_sample |-> NoSample, last_good_sample |-> NoSample]

AllTimedOut(tele) == \A id \in SourceIds : tele[id].timeout

\* One iteration of the loop of run_board_mode, as far as the decision goes:
\* snapshots of all sources, compute_target_decision, then the sleep.
Tick ==
    /\ nextTickAt <= now
    /\ LET snaps == [id \in SourceIds |-> snapshot(src[id])]
           out == compute_target_decision(cfg, snaps, now, active)
       IN  /\ active' = out.active
           /\ lastTick' = [done |-> TRUE, at |-> now, snaps |-> snaps,
                           preActive |-> active, failSince |-> failSince,
                           decision |-> out.decision, telemetry |-> out.telemetry]
           /\ staleRun' = IF AllTimedOut(out.telemetry)
                          THEN Min2(staleRun + 1, MaxStaleRun)
                          ELSE 0
    /\ nextTickAt' = now + cfg.interval_sec * TicksPerSec
    /\ UNCHANGED <<cfg, now, src, unit, failSince, daemonVars, call>>

\* The clock advances once every unit whose deadline has come has started its
\* sample, the control loop has run a due tick, and no remote call has
\* outlived its timeout.
Advance ==
    /\ now < MaxTime
    /\ nextTickAt > now
    /\ \A id \in SourceIds :
        /\ unit[id].pc = "wait" => unit[id].next_deadline > now
        /\ unit[id].pc = "sampling" =>
              now - unit[id].start_ts < ubus_timeout(cfg.sources[id].poll_sec)
    /\ now' = now + 1
    /\ UNCHANGED <<cfg, src, unit, failSince, active, nextTickAt, lastTick, staleRun, daemonVars, call>>

Init ==
    /\ cfg \in PolicyConfigs
    /\ now = 0
    /\ src = [id \in SourceIds |-> Unpolled]
    /\ unit = [id \in SourceIds |-> [pc |-> "wait", next_deadline |-> 0, start_ts |-> 0]]
    /\ failSince = [id \in SourceIds |-> -1]
    /\ active = [id \in SourceIds |-> FALSE]
    /\ nextTickAt = 0
    /\ lastTick = [done |-> FALSE, at |-> 0,
                   snaps |-> [id \in SourceIds |-> Unpolled],
                   preActive |-> [id \in SourceIds |-> FALSE],
                   failSince |-> [id \in SourceIds |-> -1],
                   decision |-> [target_pwm |-> 0, any_valid |-> FALSE,
                                 any_timeout |-> FALSE, critical |-> FALSE],
                   telemetry |-> [id \in SourceIds |-> NoDemand(FALSE)]]
    /\ staleRun = 0
    /\ DaemonIdle
    /\ call = NoCall

Next ==
    \/ \E id \in SourceIds, ok \in BOOLEAN, temp \in Temps : SampleSysfs(id, ok, temp)
    \/ \E id \in SourceIds : SampleBegin(id)
    \/ \E id \in SourceIds, ok \in BOOLEAN, temp \in Temps : SampleEnd(id, ok, temp)
    \/ Tick
    \/ Advance

Spec == Init /\ [][Next]_vars

\* ---------------------------------------------------------------------------
\* A single decision over drawn inputs (compute_target_decision as a function)
\* ---------------------------------------------------------------------------
\* The sample states store_sample can leave behind, seen at clock value tnow.
SnapshotInputs(tnow) ==
    {Unpolled}
    \cup { store_sample(Unpolled, TempSample(FALSE, 0, tnow - a)) : a \in 0..MaxAgeTicks }
    \cup { store_sample(Unpolled, TempSample(TRUE, temp, tnow - a)) :
              a \in 0..MaxAgeTicks, temp \in DecisionTemps }
    \cup { store_sample(store_sample(Unpolled, TempSample(TRUE, temp, tnow - b)),
                        TempSample(FALSE, 0, tnow)) :
              b \in 1..MaxAgeTicks, temp \in DecisionTemps }

DecisionInit ==
    /\ cfg \in DecisionConfigs
    /\ now = MaxAgeTicks
    /\ src \in [SourceIds -> SnapshotInputs(MaxAgeTicks)]
    /\ unit = [id \in SourceIds |-> [pc |-> "wait", next_deadline |-> 0, start_ts |-> 0]]
    /\ failSince = [id \in SourceIds |-> -1]
    /\ active \in [SourceIds -> BOOLEAN]
    /\ nextTickAt = MaxAgeTicks
    /\ lastTick = [done |-> FALSE, at |-> 0,
                   snaps |-> [id \in SourceIds |-> Unpolled],
                   preActive |-> [id \in SourceIds |-> FALSE],
                   failSince |-> [id \in SourceIds |-> -1],
                   decision |-> [target_pwm |-> 0, any_valid |-> FALSE,
                                 any_timeout |-> FALSE, critical |-> FALSE],
                   telemetry |-> [id \in SourceIds |-> NoDemand(FALSE)]]
    /\ staleRun = 0
    /\ DaemonIdle
    /\ call = NoCall

SpecDecision == DecisionInit /\ [][Tick]_vars

\* ---------------------------------------------------------------------------
\* PWM ramp controller (pwm_controller.cpp)
\* ---------------------------------------------------------------------------
\* The credits are doubles; a step above INT_MAX / 2 is cut to it.
\* Faulty variant: the step is not limited to the distance left.
apply_ramp_overshooting(current_pwm, target_pwm, c, acc) ==
    LET bounded_current == clamp_pwm(c, current_pwm)
        bounded_target == clamp_pwm(c, target_pwm)
        span == Abs(c.pwm_max - c.pwm_min)
        stronger == is_stronger_cooling_pwm(bounded_target, bounded_current, c)
        ramp_sec == Max2(1, IF stronger THEN c.ramp_up ELSE c.ramp_down)
        interval_sec == Max2(1, c.interval_sec)
        per_tick == DoubleQuotient(span * interval_sec, ramp_sec)
        credit == DoubleAdd(IF stronger THEN acc.stronger ELSE acc.weaker, per_tick)
        step == Min2(DoubleFloor(credit), 1073741823)
        left == IF step <= 0 THEN credit ELSE DoubleFraction(credit)
        acc2 == IF stronger THEN [stronger |-> left, weaker |-> DoubleZero]
                ELSE [stronger |-> DoubleZero, weaker |-> left]
    IN  IF bounded_target = bounded_current \/ span <= 0
        THEN [next |-> bounded_current, acc |-> NoCredit]
        ELSE IF step <= 0
        THEN [next |-> bounded_current, acc |-> acc2]
        ELSE IF bounded_target > bounded_current
        THEN [next |-> clamp_pwm(c, bounded_current + step), acc |-> acc2]
        ELSE [next |-> clamp_pwm(c, bounded_current - step), acc |-> acc2]

\* Faulty variant: a step cut short by the target leaves the credit of the
\* part not moved in the accumulator.
apply_ramp_banks_credit(current_pwm, target_pwm, c, acc) ==
    LET bounded_current == clamp_pwm(c, current_pwm)
        bounded_target == clamp_pwm(c, target_pwm)
        span == Abs(c.pwm_max - c.pwm_min)
        stronger == is_stronger_cooling_pwm(bounded_target, bounded_current, c)
        ramp_sec == Max2(1, IF stronger THEN c.ramp_up ELSE c.ramp_down)
        interval_sec == Max2(1, c.interval_sec)
        per_tick == DoubleQuotient(span * interval_sec, ramp_sec)
        credit == DoubleAdd(IF stronger THEN acc.stronger ELSE acc.weaker, per_tick)
        step == Min2(DoubleFloor(credit), 1073741823)
        moved == Min2(step, Abs(bounded_target - bounded_current))
        left == IF step <= 0 THEN credit ELSE [credit EXCEPT ![4] = @ - moved]
        acc2 == IF stronger THEN [stronger |-> left, weaker |-> DoubleZero]
                ELSE [stronger |-> DoubleZero, weaker |-> left]
    IN  IF bounded_target = bounded_current \/ span <= 0
        THEN [next |-> bounded_current, acc |-> NoCredit]
        ELSE IF step <= 0
        THEN [next |-> bounded_current, acc |-> acc2]
        ELSE IF bounded_target > bounded_current
        THEN [next |-> clamp_pwm(c, Min2(bounded_target, bounded_current + step)), acc |-> acc2]
        ELSE [next |-> clamp_pwm(c, Max2(bounded_target, bounded_current - step)), acc |-> acc2]

apply_ramp(current_pwm, target_pwm, c, acc) ==
    LET bounded_current == clamp_pwm(c, current_pwm)
        bounded_target == clamp_pwm(c, target_pwm)
        span == Abs(c.pwm_max - c.pwm_min)
        stronger == is_stronger_cooling_pwm(bounded_target, bounded_current, c)
        ramp_sec == Max2(1, IF stronger THEN c.ramp_up ELSE c.ramp_down)
        interval_sec == Max2(1, c.interval_sec)
        per_tick == DoubleQuotient(span * interval_sec, ramp_sec)
        credit == DoubleAdd(IF stronger THEN acc.stronger ELSE acc.weaker, per_tick)
        step == Min2(DoubleFloor(credit), 1073741823)
        left == IF step <= 0 THEN credit ELSE DoubleFraction(credit)
        acc2 == IF stronger THEN [stronger |-> left, weaker |-> DoubleZero]
                ELSE [stronger |-> DoubleZero, weaker |-> left]
    IN  IF bounded_target = bounded_current \/ span <= 0
        THEN [next |-> bounded_current, acc |-> NoCredit]
        ELSE IF step <= 0
        THEN [next |-> bounded_current, acc |-> acc2]
        ELSE IF bounded_target > bounded_current
        THEN [next |-> clamp_pwm(c, Min2(bounded_target, bounded_current + step)), acc |-> acc2]
        ELSE [next |-> clamp_pwm(c, Max2(bounded_target, bounded_current - step)), acc |-> acc2]

\* ---------------------------------------------------------------------------
\* Process entry, signals and ownership guards (fancontrol_core.cpp)
\* ---------------------------------------------------------------------------
Signals == {"SIGHUP", "SIGINT", "SIGTERM", "SIGQUIT"}

\* on_signal: the value stored in g_restore_status for a signal.
\* Faulty variant: hang-up and interrupt give status 0, terminate and quit 1.
on_signal_status_swapped(sig) == IF sig \in {"SIGHUP", "SIGINT"} THEN 0 ELSE 1

on_signal_status(sig) == IF sig \in {"SIGHUP", "SIGINT"} THEN 1 ELSE 0

desired_control_mode_value(c) == IF c.control_mode = "user" THEN "disabled" ELSE "enabled"

\* Positions of a process at which its signal handlers are installed.
Alive(p) == proc[p].pc \notin {"idle", "exited"}

\* Positions inside the control loop of run_board_mode.
LoopPcs ==
    {"loop", "enforce", "decide", "readback", "actuate", "status", "sleep", "sleep_for"}

InLoop(p) == proc[p].pc \in LoopPcs

\* Positions after run_board_mode has returned or thrown.
Unwinding(p) ==
    proc[p].pc \in {"unwind_mgr", "unwind_status", "unwind_pwm", "unwind_ctrl",
                    "unwind_pidfile", "unwind_lock", "exit"}

\* An exception leaves the current position: run() catches it and returns 1
\* after the objects constructed so far have been destroyed, starting at `to`.
\* Faulty variant: the process ends at once, nothing is destroyed.
Throw_no_unwind(r, to) ==
    [r EXCEPT !.thrown = TRUE, !.failedAt = r.pc, !.exit_code = 1, !.pc = "exit"]

Throw(r, to) ==
    [r EXCEPT !.thrown = TRUE, !.failedAt = r.pc, !.exit_code = 1, !.pc = to]

SetProc(p, r) == proc' = [proc EXCEPT ![p] = r]

\* A signal is delivered to a process whose handlers are installed. The flags
\* are not read again once the return statement has run, so signals arriving
\* later are left out.
Signal(p, sig) ==
    /\ Alive(p)
    /\ ~Unwinding(p)
    /\ SetProc(p, [proc[p] EXCEPT !.g_restore_status = on_signal_status(sig),
                                  !.g_stop = 1,
                                  !.lastSig = sig])
    /\ UNCHANGED <<call, policyVars, hw, files>>

\* run() up to the instance lock: the handlers are installed, g_stop and
\* g_restore_status are cleared, the configuration is loaded and
\* run_board_mode makes its access(2) checks of the register paths; none of
\* this touches a register or a file. The second instance is started while
\* the first holds the instance lock.
Start(p, ok) ==
    /\ proc[p].pc = "idle"
    /\ \A q \in Procs : q < p => proc[q].lock_held
    /\ SetProc(p, IF ok THEN [proc[p] EXCEPT !.pc = "lock"]
                  ELSE Throw(proc[p], "exit"))
    /\ UNCHANGED <<call, policyVars, hw, files>>

\* flock(LOCK_EX | LOCK_NB) on the lock file succeeds when no other process
\* holds the lock.
\* Faulty variant: the result of flock is ignored.
flock_acquired_unchecked(p) == TRUE

flock_acquired(p) == \A q \in Procs \ {p} : ~proc[q].lock_held

\* InstanceLock::InstanceLock
InstanceLockCtor(p) ==
    /\ proc[p].pc = "lock"
    /\ SetProc(p, IF flock_acquired(p)
                  THEN [proc[p] EXCEPT !.lock_held = TRUE, !.pc = "pidfile",
                                       !.pre = [mode |-> hw.mode, enable |-> hw.enable]]
                  ELSE [Throw(proc[p], "exit") EXCEPT !.lockRefused = TRUE])
    /\ UNCHANGED <<call, policyVars, hw, files>>

\* PidfileGuard::PidfileGuard: the file is created and the pid written; when
\* the stream cannot be opened nothing is created, when the write fails the
\* file is left empty (-1). In both cases the constructor throws.
PidfileGuardCtor(p, outcome) ==
    /\ proc[p].pc = "pidfile"
    /\ outcome \in {"ok", "nocreate", "nowrite"}
    /\ files' = [files EXCEPT !.pidfile = IF outcome = "ok" THEN p
                                          ELSE IF outcome = "nowrite" THEN -1 ELSE @]
    /\ SetProc(p, IF outcome = "ok"
                  THEN [proc[p] EXCEPT !.pidfile_guard = TRUE, !.pc = "ctl_setup",
                                       !.wrote = @ \cup {"pidfile"}]
                  ELSE [Throw(proc[p], "unwind_lock") EXCEPT
                           !.wrote = IF outcome = "nowrite" THEN @ \cup {"pidfile"} ELSE @])
    /\ UNCHANGED <<call, policyVars, hw>>

\* BoardPwmGuard::BoardPwmGuard, first half: setup_board_control_mode. The
\* previous mode is recorded when it can be read, then the runtime mode is
\* written. A failure throws out of the constructor: the guard's own destructor
\* does not run, only the members of BoardOwnershipGuard built before it.
SetupControlMode(p, readOk, writeOk) ==
    /\ proc[p].pc = "ctl_setup"
    /\ LET r == [proc[p] EXCEPT !.has_mode = TRUE,
                                !.orig_mode = IF readOk THEN <<hw.mode>> ELSE <<>>]
       IN  IF writeOk
           THEN /\ hw' = [hw EXCEPT !.mode = desired_control_mode_value(cfg)]
                /\ SetProc(p, [r EXCEPT !.control_armed = TRUE,
                                        !.wrote = @ \cup {"mode"},
                                        !.pc = IF cfg.control_mode = "user"
                                               THEN "pwm_setup" ELSE "startup"])
           ELSE /\ hw' = hw
                /\ SetProc(p, Throw(r, "unwind_pidfile"))
    /\ UNCHANGED <<call, policyVars, files>>

\* BoardPwmGuard::BoardPwmGuard, second half (user mode): setup_board_pwm. The
\* previous enable value is recorded when it can be read, then 1 is written.
\* A failed write throws out of the constructor, after control_armed_ was set:
\* again the guard's destructor does not run.
SetupPwm(p, readOk, writeOk) ==
    /\ proc[p].pc = "pwm_setup"
    /\ ~hw.has_enable => readOk /\ writeOk
    /\ LET r == [proc[p] EXCEPT !.has_enable = hw.has_enable,
                                !.orig_enable = IF hw.has_enable /\ readOk
                                                THEN <<hw.enable>> ELSE <<>>]
       IN  IF hw.has_enable /\ ~writeOk
           THEN /\ hw' = hw
                /\ SetProc(p, Throw(r, "unwind_pidfile"))
           ELSE /\ hw' = IF hw.has_enable THEN [hw EXCEPT !.enable = 1] ELSE hw
                /\ SetProc(p, [r EXCEPT !.armed = TRUE,
                                        !.wrote = IF hw.has_enable THEN @ \cup {"enable"} ELSE @,
                                        !.pc = "startup"])
    /\ UNCHANGED <<call, policyVars, files>>

\* run_board_mode between the guard and the loop: the status guard and the
\* sources exist, the current PWM is read, user mode writes the idle PWM when
\* the register holds another value, and the sampling units are started.
Startup(p, readOk, writeOk) ==
    /\ proc[p].pc = "startup"
    /\ LET read == IF readOk THEN hw.pwm ELSE min_cooling_pwm(cfg)
           startup_pwm == min_cooling_pwm(cfg)
           writes == cfg.control_mode = "user" /\ read # startup_pwm
           r == [proc[p] EXCEPT !.status_guard = TRUE]
       IN  /\ ~writes => writeOk
           /\ IF writes
              THEN IF writeOk
                   THEN /\ hw' = [hw EXCEPT !.pwm = startup_pwm]
                        /\ SetProc(p, [r EXCEPT !.current_pwm = startup_pwm,
                                                !.wrote = @ \cup {"pwm"},
                                                !.mgr_running = TRUE, !.pc = "loop"])
                   ELSE /\ hw' = hw
                        /\ SetProc(p, Throw(r, "unwind_mgr"))
              ELSE /\ hw' = hw
                   /\ SetProc(p, [r EXCEPT !.current_pwm = read,
                                           !.mgr_running = TRUE, !.pc = "loop"])
    /\ UNCHANGED <<call, policyVars, files>>

\* ---------------------------------------------------------------------------
\* The control loop of run_board_mode
\* ---------------------------------------------------------------------------
\* The order of the steps of one iteration.
\* Faulty variant: the ramp and the write run before the decision of the tick.
tick_step_after_write_first(step) ==
    CASE step = "enforce" -> "readback"
      [] step = "readback" -> "actuate"
      [] step = "actuate" -> "decide"
      [] step = "decide" -> "status"
      [] step = "status" -> "sleep"

tick_step_after(step) ==
    CASE step = "enforce" -> "decide"
      [] step = "decide" -> "readback"
      [] step = "readback" -> "actuate"
      [] step = "actuate" -> "status"
      [] step = "status" -> "sleep"

\* Faulty variant: the loop condition is not tested, the loop goes on after a
\* signal.
LoopCheck_ignores_stop(p) ==
    /\ proc[p].pc = "loop"
    /\ SetProc(p, [proc[p] EXCEPT !.pc = "enforce", !.trace = <<>>,
                                  !.observed = <<>>])
    /\ UNCHANGED <<call, policyVars, hw, files>>

\* while (!g_stop): the loop is left once the flag is seen, otherwise the
\* next iteration begins.
LoopCheck(p) ==
    /\ proc[p].pc = "loop"
    /\ SetProc(p, IF proc[p].g_stop = 1
                  THEN [proc[p] EXCEPT !.pc = "return"]
                  ELSE [proc[p] EXCEPT !.pc = "enforce", !.trace = <<>>,
                                       !.observed = <<>>])
    /\ UNCHANGED <<call, policyVars, hw, files>>

\* Faulty variant: a failed rewrite of the control mode is ignored and the
\* tick goes on.
EnforceMode_goes_on(p, readOk, writeOk) ==
    /\ proc[p].pc = "enforce"
    /\ LET control_mode_value == IF readOk THEN hw.mode ELSE ""
           control_mode_target == desired_control_mode_value(cfg)
       IN  /\ control_mode_value = control_mode_target => writeOk
           /\ IF control_mode_value # control_mode_target /\ writeOk
              THEN /\ hw' = [hw EXCEPT !.mode = control_mode_target]
                   /\ SetProc(p, [proc[p] EXCEPT !.pc = tick_step_after("enforce"),
                                                 !.wrote = @ \cup {"mode"}])
              ELSE /\ hw' = hw
                   /\ SetProc(p, [proc[p] EXCEPT !.pc = tick_step_after("enforce")])
    /\ UNCHANGED <<call, policyVars, files>>

\* The control-mode register is read and rewritten when it does not hold the
\* value of the configured mode; a failed rewrite throws.
EnforceMode(p, readOk, writeOk) ==
    /\ proc[p].pc = "enforce"
    /\ LET control_mode_value == IF readOk THEN hw.mode ELSE ""
           control_mode_target == desired_control_mode_value(cfg)
       IN  /\ control_mode_value = control_mode_target => writeOk
           /\ IF control_mode_value = control_mode_target
              THEN /\ hw' = hw
                   /\ SetProc(p, [proc[p] EXCEPT !.pc = tick_step_after("enforce")])
              ELSE IF writeOk
              THEN /\ hw' = [hw EXCEPT !.mode = control_mode_target]
                   /\ SetProc(p, [proc[p] EXCEPT !.pc = tick_step_after("enforce"),
                                                 !.wrote = @ \cup {"mode"}])
              ELSE /\ hw' = hw
                   /\ SetProc(p, Throw(proc[p], "unwind_mgr"))
    /\ UNCHANGED <<call, policyVars, files>>

\* compute_target_decision over the snapshots of the sources.
Decide(p) ==
    /\ proc[p].pc = "decide"
    /\ LET snaps == [id \in SourceIds |-> snapshot(src[id])]
           out == compute_target_decision(cfg, snaps, now, proc[p].active)
       IN  SetProc(p, [proc[p] EXCEPT !.decision = out.decision,
                                      !.active = out.active,
                                      !.trace = Append(@, "decide"),
                                      !.pc = tick_step_after("decide")])
    /\ UNCHANGED <<call, policyVars, hw, files>>

\* The PWM register is read back; the previous value is kept when the read
\* fails.
Readback(p, readOk) ==
    /\ proc[p].pc = "readback"
    /\ SetProc(p, [proc[p] EXCEPT !.current_pwm = IF readOk THEN hw.pwm ELSE @,
                                  !.observed = IF readOk THEN <<hw.pwm>> ELSE <<>>,
                                  !.trace = Append(@, "read"),
                                  !.pc = tick_step_after("readback")])
    /\ UNCHANGED <<call, policyVars, hw, files>>

\* if (next_pwm != current_pwm): the condition of the PWM write of a tick.
\* Faulty variant: the PWM is written in every tick.
pwm_write_always(next_pwm, current_pwm) == TRUE

pwm_write_needed(next_pwm, current_pwm) == next_pwm # current_pwm

\* User mode: one ramp step toward the target, written when it changes the
\* PWM; a failed write throws. Kernel mode writes nothing.
Actuate(p, writeOk) ==
    /\ proc[p].pc = "actuate"
    /\ LET r == apply_ramp(proc[p].current_pwm, proc[p].decision.target_pwm,
                           cfg, proc[p].credit)
           writes == /\ cfg.control_mode = "user"
                     /\ pwm_write_needed(r.next, proc[p].current_pwm)
           q == IF cfg.control_mode = "user"
                THEN [proc[p] EXCEPT !.credit = r.acc, !.trace = Append(@, "ramp")]
                ELSE proc[p]
       IN  /\ ~writes => writeOk
           /\ IF ~writes
              THEN /\ hw' = hw
                   /\ SetProc(p, [q EXCEPT !.pc = tick_step_after("actuate")])
              ELSE IF writeOk
              THEN /\ hw' = [hw EXCEPT !.pwm = r.next]
                   /\ SetProc(p, [q EXCEPT !.current_pwm = r.next,
                                           !.trace = Append(@, "write"),
                                           !.wrote = @ \cup {"pwm"},
                                           !.pc = tick_step_after("actuate")])
              ELSE /\ hw' = hw
                   /\ SetProc(p, Throw(q, "unwind_mgr"))
    /\ UNCHANGED <<call, policyVars, files>>

\* The runtime status document is replaced; a failure is ignored.
PublishStatus(p, ok) ==
    /\ proc[p].pc = "status"
    /\ files' = IF ok THEN [files EXCEPT !.status = p] ELSE files
    /\ SetProc(p, [proc[p] EXCEPT !.wrote = IF ok THEN @ \cup {"status"} ELSE @,
                                  !.pc = tick_step_after("status")])
    /\ UNCHANGED <<call, policyVars, hw>>

\* The sleep of interval_sec seconds, cut short by g_stop.
Sleep(p) ==
    /\ proc[p].pc = "sleep"
    /\ SetProc(p, [proc[p] EXCEPT !.pc = "loop"])
    /\ UNCHANGED <<call, policyVars, hw, files>>

\* return (g_restore_status == 0) ? 0 : 1;
Return(p) ==
    /\ proc[p].pc = "return"
    /\ SetProc(p, [proc[p] EXCEPT !.exit_code = IF proc[p].g_restore_status = 0 THEN 0 ELSE 1,
                                  !.pc = "unwind_mgr"])
    /\ UNCHANGED <<call, policyVars, hw, files>>

\* ---------------------------------------------------------------------------
\* Destruction of the locals of run_board_mode, in reverse order
\* ---------------------------------------------------------------------------
\* Faulty variant: the sampling units are left running when the locals of
\* run_board_mode cease to exist.
UnwindMgr_leaves_units(p) ==
    /\ proc[p].pc = "unwind_mgr"
    /\ SetProc(p, [proc[p] EXCEPT !.current_pwm = ProcInit.current_pwm,
                                  !.credit = ProcInit.credit,
                                  !.active = ProcInit.active,
                                  !.decision = ProcInit.decision,
                                  !.trace = ProcInit.trace,
                                  !.observed = ProcInit.observed,
                                  !.pc = "unwind_status"])
    /\ UNCHANGED <<call, policyVars, hw, files>>

\* ~SourceManager: the sampling units are stopped and joined; the other locals
\* of run_board_mode cease to exist.
UnwindMgr(p) ==
    /\ proc[p].pc = "unwind_mgr"
    /\ SetProc(p, [proc[p] EXCEPT !.mgr_running = FALSE,
                                  !.current_pwm = ProcInit.current_pwm,
                                  !.credit = ProcInit.credit,
                                  !.active = ProcInit.active,
                                  !.decision = ProcInit.decision,
                                  !.trace = ProcInit.trace,
                                  !.observed = ProcInit.observed,
                                  !.pc = "unwind_status"])
    /\ UNCHANGED <<call, policyVars, hw, files>>

\* Faulty variant: the status document is left behind.
UnwindStatus_keeps_file(p) ==
    /\ proc[p].pc = "unwind_status"
    /\ files' = files
    /\ SetProc(p, [proc[p] EXCEPT !.status_guard = FALSE, !.pc = "unwind_pwm"])
    /\ UNCHANGED <<call, policyVars, hw>>

\* ~RuntimeStatusGuard: the status document is unlinked.
UnwindStatus(p) ==
    /\ proc[p].pc = "unwind_status"
    /\ files' = [files EXCEPT !.status = 0]
    /\ SetProc(p, [proc[p] EXCEPT !.status_guard = FALSE, !.pc = "unwind_pwm"])
    /\ UNCHANGED <<call, policyVars, hw>>

\* ~BoardPwmGuard, first half: restore_board_pwm when armed_. The enable
\* register gets the recorded value (0 when none was read); when the write
\* fails it is retried once and the PWM is set to maximum cooling.
RestorePwm(p, ok, retryOk, pwmOk) ==
    /\ proc[p].pc = "unwind_pwm"
    /\ LET restores == proc[p].armed /\ proc[p].has_enable
           enable_to_restore == IF proc[p].orig_enable # <<>>
                                THEN proc[p].orig_enable[1] ELSE 0
       IN  /\ ~restores => ok
           /\ ok => retryOk /\ pwmOk
           /\ hw' = IF ~restores THEN hw
                    ELSE [hw EXCEPT !.enable = IF ok \/ retryOk THEN enable_to_restore ELSE @,
                                    !.pwm = IF ~ok /\ pwmOk THEN max_cooling_pwm(cfg) ELSE @]
           /\ SetProc(p, [proc[p] EXCEPT !.restoreFailed = @ \/ (~ok /\ ~retryOk),
                                         !.pc = "unwind_ctrl"])
    /\ UNCHANGED <<call, policyVars, files>>

\* ~BoardPwmGuard, second half: restore_board_control_mode when
\* control_armed_. The mode register gets the recorded mode ("enabled" when
\* none was read); a failed write is retried once.
RestoreControlMode(p, ok, retryOk) ==
    /\ proc[p].pc = "unwind_ctrl"
    /\ LET restores == proc[p].control_armed /\ proc[p].has_mode
           restore_mode == IF proc[p].orig_mode # <<>>
                           THEN proc[p].orig_mode[1] ELSE "enabled"
       IN  /\ ~restores => ok
           /\ ok => retryOk
           /\ hw' = IF restores /\ (ok \/ retryOk)
                    THEN [hw EXCEPT !.mode = restore_mode] ELSE hw
           /\ SetProc(p, [proc[p] EXCEPT !.restoreFailed = @ \/ (~ok /\ ~retryOk),
                                         !.pc = "unwind_pidfile"])
    /\ UNCHANGED <<call, policyVars, files>>

\* ~PidfileGuard: the pidfile is unlinked. The guard exists only when its
\* constructor completed.
UnwindPidfile(p) ==
    /\ proc[p].pc = "unwind_pidfile"
    /\ files' = IF proc[p].pidfile_guard THEN [files EXCEPT !.pidfile = 0] ELSE files
    /\ SetProc(p, [proc[p] EXCEPT !.pidfile_guard = FALSE, !.pc = "unwind_lock"])
    /\ UNCHANGED <<call, policyVars, hw>>

\* ~InstanceLock: the lock is released. The registers at this point are what
\* the process leaves behind.
UnwindLock(p) ==
    /\ proc[p].pc = "unwind_lock"
    /\ SetProc(p, [proc[p] EXCEPT !.lock_held = FALSE,
                                  !.atExit = [mode |-> hw.mode, enable |-> hw.enable],
                                  !.pc = "exit"])
    /\ UNCHANGED <<call, policyVars, hw, files>>

\* run() returns the exit code.
Exit(p) ==
    /\ proc[p].pc = "exit"
    /\ SetProc(p, [proc[p] EXCEPT !.pc = "exited"])
    /\ UNCHANGED <<call, policyVars, hw, files>>

\* ---------------------------------------------------------------------------
\* Other actors on the registers (kernel thermal control, an operator); they
\* act while the daemon sleeps between two iterations.
\* ---------------------------------------------------------------------------
ModeValues == {"enabled", "disabled"}

ExternalWriteMode(v) ==
    /\ \E p \in Procs : proc[p].pc = "sleep"
    /\ v # hw.mode
    /\ hw' = [hw EXCEPT !.mode = v]
    /\ UNCHANGED <<call, policyVars, files, proc>>

ExternalWritePwm(v) ==
    /\ \E p \in Procs : proc[p].pc = "sleep"
    /\ v # hw.pwm
    /\ hw' = [hw EXCEPT !.pwm = v]
    /\ UNCHANGED <<call, policyVars, files, proc>>

\* ---------------------------------------------------------------------------
\* Specification of the daemon's life cycle: one instance, signals, failing
\* system calls and other writers of the registers; the sources hold a fixed
\* set of samples.
\* ---------------------------------------------------------------------------
\* Accepted configurations: both control modes over a small PWM range, ramp
\* times whose credit per tick (4 and 2 PWM units) is exact in binary.
DaemonConfigs ==
    { [board_config(mode, 0, 8, 2, 1, 2) EXCEPT !.ramp_down = 4] :
          mode \in {"user", "kernel"} }

\* PWM values found in the register at start or written by another actor.
PwmValues == {0, 5}

\* Source states seen by the control loop: nothing polled yet, or soc warm.
DaemonSnapshots(tnow) ==
    { [id \in SourceIds |-> Unpolled],
      [id \in SourceIds |->
          store_sample(Unpolled, TempSample(TRUE, IF id = "soc" THEN 71000 ELSE 40000, tnow))] }

DaemonInit ==
    /\ cfg \in DaemonConfigs
    /\ now = MaxAgeTicks
    /\ src \in DaemonSnapshots(MaxAgeTicks)
    /\ unit = [id \in SourceIds |-> [pc |-> "wait", next_deadline |-> 0, start_ts |-> 0]]
    /\ failSince = [id \in SourceIds |-> -1]
    /\ active = [id \in SourceIds |-> FALSE]
    /\ nextTickAt = MaxAgeTicks
    /\ lastTick = [done |-> FALSE, at |-> 0,
                   snaps |-> [id \in SourceIds |-> Unpolled],
                   preActive |-> [id \in SourceIds |-> FALSE],
                   failSince |-> [id \in SourceIds |-> -1],
                   decision |-> NoDecision,
                   telemetry |-> [id \in SourceIds |-> NoDemand(FALSE)]]
    /\ staleRun = 0
    /\ hw \in [pwm : {5}, enable : {2}, mode : ModeValues, has_enable : BOOLEAN]
    /\ cfg.control_mode = "kernel" => hw.has_enable
    /\ files = [pidfile |-> 0, status |-> 0]
    /\ proc = [p \in Procs |-> ProcInit]
    /\ call = NoCall

DaemonNext ==
    \/ \E p \in Procs, sig \in Signals : Signal(p, sig)
    \/ \E ok \in BOOLEAN : Start(1, ok)
    \/ \E p \in Procs : InstanceLockCtor(p)
    \/ \E p \in Procs, outcome \in {"ok", "nocreate", "nowrite"} : PidfileGuardCtor(p, outcome)
    \/ \E p \in Procs, readOk \in BOOLEAN, writeOk \in BOOLEAN : SetupControlMode(p, readOk, writeOk)
    \/ \E p \in Procs, readOk \in BOOLEAN, writeOk \in BOOLEAN : SetupPwm(p, readOk, writeOk)
    \/ \E p \in Procs, readOk \in BOOLEAN, writeOk \in BOOLEAN : Startup(p, readOk, writeOk)
    \/ \E p \in Procs : LoopCheck(p)
    \/ \E p \in Procs, readOk \in BOOLEAN, writeOk \in BOOLEAN : EnforceMode(p, readOk, writeOk)
    \/ \E p \in Procs : Decide(p)
    \/ \E p \in Procs, readOk \in BOOLEAN : Readback(p, readOk)
    \/ \E p \in Procs, writeOk \in BOOLEAN : Actuate(p, writeOk)
    \/ \E p \in Procs, ok \in BOOLEAN : PublishStatus(p, ok)
    \/ \E p \in Procs : Sleep(p)
    \/ \E p \in Procs : Return(p)
    \/ \E p \in Procs : UnwindMgr(p)
    \/ \E p \in Procs : UnwindStatus(p)
    \/ \E p \in Procs, ok \in BOOLEAN, retryOk \in BOOLEAN, pwmOk \in BOOLEAN :
          RestorePwm(p, ok, retryOk, pwmOk)
    \/ \E p \in Procs, ok \in BOOLEAN, retryOk \in BOOLEAN : RestoreControlMode(p, ok, retryOk)
    \/ \E p \in Procs : UnwindPidfile(p)
    \/ \E p \in Procs : UnwindLock(p)
    \/ \E p \in Procs : Exit(p)
    \/ \E v \in ModeValues : ExternalWriteMode(v)
    \/ \E v \in PwmValues : ExternalWritePwm(v)

SpecDaemon == DaemonInit /\ [][DaemonNext]_vars

\* ---------------------------------------------------------------------------
\* Specification of two instances: the second is started while the first
\* holds the lock; signals end either; every system call succeeds and no other
\* actor writes the registers.
\* ---------------------------------------------------------------------------
InstancesNext ==
    \/ \E p \in Procs, sig \in Signals : Signal(p, sig)
    \/ \E p \in Procs : Start(p, TRUE)
    \/ \E p \in Procs : InstanceLockCtor(p)
    \/ \E p \in Procs : PidfileGuardCtor(p, "ok")
    \/ \E p \in Procs : SetupControlMode(p, TRUE, TRUE)
    \/ \E p \in Procs : SetupPwm(p, TRUE, TRUE)
    \/ \E p \in Procs : Startup(p, TRUE, TRUE)
    \/ \E p \in Procs : LoopCheck(p)
    \/ \E p \in Procs : EnforceMode(p, TRUE, TRUE)
    \/ \E p \in Procs : Decide(p)
    \/ \E p \in Procs : Readback(p, TRUE)
    \/ \E p \in Procs : Actuate(p, TRUE)
    \/ \E p \in Procs : PublishStatus(p, TRUE)
    \/ \E p \in Procs : Sleep(p)
    \/ \E p \in Procs : Return(p)
    \/ \E p \in Procs : UnwindMgr(p)
    \/ \E p \in Procs : UnwindStatus(p)
    \/ \E p \in Procs : RestorePwm(p, TRUE, TRUE, TRUE)
    \/ \E p \in Procs : RestoreControlMode(p, TRUE, TRUE)
    \/ \E p \in Procs : UnwindPidfile(p)
    \/ \E p \in Procs : UnwindLock(p)
    \/ \E p \in Procs : Exit(p)

SpecInstances == DaemonInit /\ [][InstancesNext]_vars

\* ---------------------------------------------------------------------------
\* Vocabulary of the properties
\* ---------------------------------------------------------------------------
\* Cooling strength of a PWM value along the direction pwm_min -> pwm_max.
Level(c, pwm) ==
    LET lo == Min2(c.pwm_min, c.pwm_max)
        hi == Max2(c.pwm_min, c.pwm_max)
        v == Max2(lo, Min2(hi, pwm))
    IN  Abs(v - c.pwm_min)

FailsafeLevel(c) == Level(c, c.failsafe_pwm)

\* Whole seconds between a sample's stamp and the tick.
TickAge(sample) == (lastTick.at - sample.sample_ts) \div TicksPerSec

\* The source went into the last tick with a last-known-good sample within TTL.
TickFresh(id) ==
    /\ lastTick.snaps[id].last_good_sample # NoSample
    /\ TickAge(lastTick.snaps[id].last_good_sample[1]) <= cfg.sources[id].ttl_sec

\* The source went into the last tick with its sample older than TTL.
TickStale(id) ==
    \/ /\ lastTick.snaps[id].last_good_sample # NoSample
       /\ TickAge(lastTick.snaps[id].last_good_sample[1]) > cfg.sources[id].ttl_sec
    \/ /\ lastTick.snaps[id].last_good_sample = NoSample
       /\ lastTick.snaps[id].last_sample # NoSample
       /\ TickAge(lastTick.snaps[id].last_sample[1]) > cfg.sources[id].ttl_sec

TickCritical(id) ==
    /\ TickFresh(id)
    /\ lastTick.snaps[id].last_good_sample[1].temp_mC >= cfg.sources[id].t_crit_mC

\* The strongest of the demands of the sources that were valid in the last tick.
ValidDemands == {lastTick.telemetry[id].demand_pwm : id \in {i \in SourceIds : TickFresh(i)}}

StrongestValidDemand ==
    CHOOSE d \in ValidDemands : \A e \in ValidDemands : Level(cfg, d) >= Level(cfg, e)

\* ---------------------------------------------------------------------------
\* Properties of the decision
\* ---------------------------------------------------------------------------
\* C1: whenever a source that is not stale reports a last-known-good
\* temperature at or above its t_crit, the tick's target is the max-cooling PWM,
\* the decision is critical and the source's active flag is set, whatever its
\* prior flag, its weight, the hysteresis and the other sources.
C1_CriticalForcesMaxCooling ==
    lastTick.done =>
        \A id \in SourceIds :
            TickCritical(id) =>
                /\ lastTick.decision.target_pwm = cfg.pwm_max
                /\ lastTick.decision.critical
                /\ active[id]

\* C1 witness: a source that was inactive is critical exactly at t_crit while
\* the other source is timed out.
C1_Witness ==
    /\ lastTick.done
    /\ \E id \in SourceIds :
        /\ TickCritical(id)
        /\ lastTick.snaps[id].last_good_sample[1].temp_mC = cfg.sources[id].t_crit_mC
        /\ ~lastTick.preActive[id]
        /\ \E other \in SourceIds \ {id} : TickStale(other)
    /\ cfg.pwm_min > cfg.pwm_max

\* C2: a tick in which no source has a last-known-good sample within its TTL
\* (stale, only failed samples, or not polled yet) targets the max-cooling PWM.
C2_BlindForcesMaxCooling ==
    (lastTick.done /\ \A id \in SourceIds : ~TickFresh(id)) =>
        lastTick.decision.target_pwm = cfg.pwm_max

\* C2 witness: one source not yet polled, the other with failed samples only,
\* and a configuration in which idle and max-cooling differ.
C2_Witness ==
    /\ lastTick.done
    /\ \A id \in SourceIds : ~TickFresh(id)
    /\ \E id \in SourceIds : ~lastTick.snaps[id].has_polled
    /\ \E id \in SourceIds :
        /\ lastTick.snaps[id].last_sample # NoSample
        /\ lastTick.snaps[id].last_good_sample = NoSample
    /\ cfg.pwm_min # cfg.pwm_max
    /\ lastTick.decision.target_pwm # cfg.pwm_min

\* C4: with a timed-out source, a valid source and no critical one, the target
\* is the strongest valid demand when that is stronger than the fail-safe level
\* and the clamped fail-safe level otherwise.
C4_TimeoutKeepsArbitration ==
    (/\ lastTick.done
     /\ \E id \in SourceIds : TickStale(id)
     /\ \E id \in SourceIds : TickFresh(id)
     /\ \A id \in SourceIds : ~TickCritical(id)) =>
        lastTick.decision.target_pwm =
            IF Level(cfg, StrongestValidDemand) > FailsafeLevel(cfg)
            THEN StrongestValidDemand
            ELSE clamp_pwm(cfg, cfg.failsafe_pwm)

\* C4 witness: a stale source next to a valid one whose demand is stronger than
\* the fail-safe level and wins.
C4_Witness ==
    /\ lastTick.done
    /\ \E id \in SourceIds : TickStale(id)
    /\ \E id \in SourceIds : TickFresh(id)
    /\ \A id \in SourceIds : ~TickCritical(id)
    /\ Level(cfg, StrongestValidDemand) > FailsafeLevel(cfg)
    /\ lastTick.decision.target_pwm # clamp_pwm(cfg, cfg.failsafe_pwm)
    /\ lastTick.decision.target_pwm # cfg.pwm_max

\* The last tick's snapshots with the stale source's last-known-good
\* temperature replaced.
WithGoodTemp(id, temp) ==
    IF lastTick.snaps[id].last_good_sample = NoSample THEN lastTick.snaps
    ELSE [lastTick.snaps EXCEPT ![id].last_good_sample[1].temp_mC = temp]

\* C5: a source whose sample age (whole seconds) exceeds its ttl_sec is left
\* out of the tick: any_timeout is set, no demand is computed for it, its
\* hysteresis flag is untouched and the decision is the same for every value
\* its stale sample could hold.
C5_StaleSourceExcluded ==
    lastTick.done =>
        \A id \in SourceIds :
            TickStale(id) =>
                /\ lastTick.decision.any_timeout
                /\ ~lastTick.telemetry[id].valid
                /\ lastTick.telemetry[id].demand_pwm = 0
                /\ active[id] = lastTick.preActive[id]
                /\ \A temp \in DecisionTemps :
                      compute_target_decision(cfg, WithGoodTemp(id, temp), lastTick.at,
                                              lastTick.preActive).decision
                          = lastTick.decision

\* C5 witness: a stale source holding a critical last-known-good temperature
\* next to a valid source, and the target is not max-cooling.
C5_Witness ==
    /\ lastTick.done
    /\ \E id \in SourceIds :
        /\ TickStale(id)
        /\ lastTick.snaps[id].last_good_sample # NoSample
        /\ lastTick.snaps[id].last_good_sample[1].temp_mC >= cfg.sources[id].t_crit_mC
        /\ \E other \in SourceIds \ {id} : TickFresh(other)
    /\ lastTick.decision.target_pwm # cfg.pwm_max

\* ---------------------------------------------------------------------------
\* Properties of the decision over time (live sampling units)
\* ---------------------------------------------------------------------------
\* C3: every tick in which some source is timed out targets a PWM at least as
\* strong as the clamped failsafe_pwm; so does every tick of a run of
\* consecutive ticks in which all sources are stale.
C3_TimeoutFloorsAtFailsafe ==
    lastTick.done =>
        /\ (\E id \in SourceIds : TickStale(id)) =>
              /\ lastTick.decision.any_timeout
              /\ Level(cfg, lastTick.decision.target_pwm) >= FailsafeLevel(cfg)
        /\ staleRun > 0 =>
              /\ Level(cfg, lastTick.decision.target_pwm) >= FailsafeLevel(cfg)
              /\ lastTick.decision.target_pwm # cfg.pwm_min

\* C3 witness: three consecutive ticks with every source stale.
C3_Witness ==
    /\ lastTick.done
    /\ staleRun >= 3
    /\ \A id \in SourceIds : TickStale(id)

\* C6: a source whose every sample has failed for longer than its ttl_sec is
\* treated as stale by every tick from then on (any_timeout set, target floored
\* at failsafe_pwm), whether or not it ever produced a successful sample.
C6_FailingSourceBecomesStale ==
    lastTick.done =>
        \A id \in SourceIds :
            (/\ lastTick.failSince[id] # -1
             /\ lastTick.at - lastTick.failSince[id] > cfg.sources[id].ttl_sec * TicksPerSec) =>
                /\ lastTick.decision.any_timeout
                /\ Level(cfg, lastTick.decision.target_pwm) >= FailsafeLevel(cfg)

\* The same statement restricted to sources that had a successful sample
\* before the failures began.
FailingAfterGoodBecomesStale ==
    lastTick.done =>
        \A id \in SourceIds :
            (/\ lastTick.failSince[id] # -1
             /\ lastTick.snaps[id].last_good_sample # NoSample
             /\ lastTick.at - lastTick.failSince[id] > cfg.sources[id].ttl_sec * TicksPerSec) =>
                /\ lastTick.decision.any_timeout
                /\ Level(cfg, lastTick.decision.target_pwm) >= FailsafeLevel(cfg)

\* ---------------------------------------------------------------------------
\* Restoration, exit codes, instances and the order of a tick
\* ---------------------------------------------------------------------------
Exited(p) == proc[p].pc = "exited"

\* The registers a process left behind hold the values of before the daemon,
\* or the default where the daemon tried to read the previous value and could
\* not.
RegsRestored(p) ==
    /\ \/ proc[p].atExit.mode = proc[p].pre.mode
       \/ /\ proc[p].has_mode /\ proc[p].orig_mode = <<>>
          /\ proc[p].atExit.mode = "enabled"
    /\ \/ proc[p].atExit.enable = proc[p].pre.enable
       \/ /\ proc[p].has_enable /\ proc[p].orig_enable = <<>>
          /\ proc[p].atExit.enable = 0

ChangedRegister(p) == proc[p].wrote \cap {"mode", "enable", "pwm"} # {}

\* C7: on every exit path taken after the daemon changed a hardware register,
\* the PWM-enable and control-mode registers hold their pre-daemon values (or
\* the default when none was captured) when the process exits. Exits in which
\* a restoring write itself failed twice are left aside.
C7_RegistersRestoredOnExit ==
    \A p \in Procs :
        (Exited(p) /\ ChangedRegister(p) /\ ~proc[p].restoreFailed) =>
            RegsRestored(p)

\* The same statement restricted to exits after BoardPwmGuard's constructor
\* completed.
RestoredOnceGuardBuilt ==
    \A p \in Procs :
        (/\ Exited(p)
         /\ proc[p].control_armed
         /\ cfg.control_mode = "user" => proc[p].armed
         /\ ~proc[p].restoreFailed) =>
            RegsRestored(p)

\* A process whose loop ended by return, after a signal, is gone.
SignalledExit(p) == Exited(p) /\ ~proc[p].thrown /\ proc[p].lastSig \in Signals

C9_SingleInstance ==
    /\ [](/\ Cardinality({p \in Procs : proc[p].lock_held}) <= 1
          /\ \A p \in Procs :
                /\ (InLoop(p) \/ proc[p].pc \in {"pidfile", "ctl_setup", "pwm_setup", "startup"})
                      => proc[p].lock_held
                /\ proc[p].lockRefused =>
                      /\ proc[p].exit_code = 1
                      /\ proc[p].wrote = {}
                      /\ ~proc[p].lock_held)
    /\ [][\A p \in Procs :
             (proc'[p] # proc[p] /\ proc'[p].lockRefused) =>
                 (hw' = hw /\ files' = files)]_vars

\* C9 witness: the second instance was refused and is gone while the first is
\* in its loop with its pidfile and status file in place.
C9_Witness ==
    /\ Exited(2) /\ proc[2].lockRefused
    /\ InLoop(1) /\ proc[1].lock_held
    /\ files.pidfile = 1 /\ files.status = 1

Before(tr, a, i) == \E j \in 1..(i - 1) : tr[j] = a

StepOf(p) == proc'[p] # proc[p]

\* A step in which process p performs the PWM write of its tick.
TickWrite(p) ==
    /\ Len(proc'[p].trace) = Len(proc[p].trace) + 2
    /\ proc'[p].trace[Len(proc'[p].trace)] = "write"

\* C11: the daemon changes the PWM register only in user mode; the PWM write
\* of a tick happens only in user mode and only with a value different from
\* the one read back in that tick; in kernel mode no step of the loop changes
\* the PWM or the PWM-enable register.
C11_PwmWrittenOnlyOnChange ==
    [][\A p \in Procs :
          /\ (StepOf(p) /\ hw'.pwm # hw.pwm) => cfg.control_mode = "user"
          /\ TickWrite(p) =>
                /\ cfg.control_mode = "user"
                /\ proc[p].observed # <<>> =>
                      (hw'.pwm # proc[p].observed[1] /\ hw.pwm = proc[p].observed[1])
          /\ (StepOf(p) /\ InLoop(p) /\ cfg.control_mode = "kernel") =>
                (hw'.pwm = hw.pwm /\ hw'.enable = hw.enable)]_vars

\* C11 witness: in user mode a tick read back the PWM and wrote a different
\* value.
C11_Witness ==
    \E p \in Procs :
        /\ cfg.control_mode = "user"
        /\ proc[p].trace = <<"decide", "read", "ramp", "write">>
        /\ proc[p].observed # <<>>
        /\ hw.pwm # proc[p].observed[1]

\* C11 witness of the kernel mode: a tick ran to its end without a write.
KernelTickRan ==
    \E p \in Procs :
        /\ cfg.control_mode = "kernel"
        /\ proc[p].pc = "sleep"
        /\ proc[p].trace = <<"decide", "read">>

\* C12: once a PWM write of a tick has failed, the process runs no further
\* tick and ends with a non-zero code; when it is gone the lock is released,
\* the pidfile and the status file are removed and the registers are restored
\* (unless a restoring write failed twice).
C12_FailedPwmWriteUnwinds ==
    \A p \in Procs :
        proc[p].failedAt = "actuate" =>
            /\ ~InLoop(p)
            /\ proc[p].exit_code = 1
            /\ proc[p].pc \in {"exit", "exited"} =>
                  /\ ~proc[p].lock_held
                  /\ ~proc[p].mgr_running
                  /\ files.pidfile = 0 /\ files.status = 0
                  /\ ~proc[p].restoreFailed => RegsRestored(p)

\* C12 witness: a process that had taken the registers, the pidfile and the
\* status file is gone after a failed PWM write of its second or later tick.
C12_Witness ==
    \E p \in Procs :
        /\ Exited(p)
        /\ proc[p].failedAt = "actuate"
        /\ {"mode", "enable", "pidfile", "status"} \subseteq proc[p].wrote
        /\ proc[p].atExit = proc[p].pre
        /\ hw.mode = proc[p].pre.mode /\ hw.enable = proc[p].pre.enable

\* Positions before the first tick at which a failure can be raised.
StartupPcs == {"idle", "pidfile", "ctl_setup", "pwm_setup", "startup"}

\* What a failure at startup position pos must leave behind.
StartupFailureClean(p) ==
    /\ ~InLoop(p)
    /\ proc[p].exit_code = 1
    /\ "status" \notin proc[p].wrote
    /\ Exited(p) =>
          /\ ~proc[p].lock_held
          /\ IF proc[p].failedAt = "idle"
             THEN proc[p].wrote = {}
             ELSE ~proc[p].restoreFailed => RegsRestored(p)

\* C13: a failure on a register or file needed at startup ends the process
\* before the first tick with code 1, and the control-mode and PWM-enable
\* registers hold their pre-start values when the process is gone.
C13_StartupFailureLeavesNoChange ==
    \A p \in Procs : proc[p].failedAt \in StartupPcs => StartupFailureClean(p)

\* The same statement for every startup failure but that of the write to
\* pwm_enable in setup_board_pwm.
StartupFailureElsewhereLeavesNoChange ==
    \A p \in Procs :
        proc[p].failedAt \in StartupPcs \ {"pwm_setup"} => StartupFailureClean(p)

\* ---------------------------------------------------------------------------
\* Specification of demand_from_source called again and again, each call with
\* any temperature and the active flag the previous call of the source left
\* ---------------------------------------------------------------------------
\* The variables a function checked on its own leaves alone.
quietVars == <<now, src, unit, failSince, nextTickAt, lastTick, staleRun, daemonVars>>

\* Their values: no sampling, no tick, no daemon instance.
Quiet ==
    /\ now = 0
    /\ src = [id \in SourceIds |-> Unpolled]
    /\ unit = [id \in SourceIds |-> [pc |-> "wait", next_deadline |-> 0, start_ts |-> 0]]
    /\ failSince = [id \in SourceIds |-> -1]
    /\ nextTickAt = 0
    /\ lastTick = [done |-> FALSE, at |-> 0,
                   snaps |-> [id \in SourceIds |-> Unpolled],
                   preActive |-> [id \in SourceIds |-> FALSE],
                   failSince |-> [id \in SourceIds |-> -1],
                   decision |-> NoDecision,
                   telemetry |-> [id \in SourceIds |-> NoDemand(FALSE)]]
    /\ staleRun = 0
    /\ DaemonIdle

\* Temperatures at and next to the thresholds of both sources: t_start - h,
\* t_start, t_start + h, t_full and t_crit.
DemandTemps ==
    {55999, 56000, 56001, 58000, 58001, 59999, 60000, 61000, 61999, 62000, 63000,
     71000, 82000, 84999, 85000, 89999, 90000}

\* Accepted configurations: those of a single decision, and one without
\* hysteresis.
DemandConfigs ==
    DecisionConfigs \cup {[board_config("user", 0, 255, 64, 1, 2) EXCEPT !.hysteresis_mC = 0]}

DemandInit ==
    /\ cfg \in DemandConfigs
    /\ active = [id \in SourceIds |-> FALSE]
    /\ call = NoCall
    /\ Quiet

DemandCall(id, temp_mC) ==
    /\ LET out == demand_from_source(cfg, cfg.sources[id], temp_mC, active[id])
       IN  /\ call' = [fn |-> "demand_from_source", id |-> id, temp_mC |-> temp_mC,
                       pre |-> active[id], out |-> out]
           /\ active' = [active EXCEPT ![id] = out.active]
    /\ UNCHANGED <<cfg, quietVars>>

DemandNext == \E id \in SourceIds, temp_mC \in DemandTemps : DemandCall(id, temp_mC)

SpecDemand == DemandInit /\ [][DemandNext]_vars

DemandCalled == call.fn = "demand_from_source"

\* C14: below t_crit an inactive source stays inactive with the idle demand
\* while temp < t_start + hysteresis and becomes active at temp >= t_start +
\* hysteresis; an active source stays active while temp > t_start - hysteresis
\* and becomes inactive with the idle demand at temp <= t_start - hysteresis;
\* a call repeated with the same temperature strictly inside the band leaves
\* the active flag as the previous call left it.
C14_Hysteresis ==
    /\ [](DemandCalled =>
            LET s == cfg.sources[call.id]
                on == s.t_start_mC + cfg.hysteresis_mC
                off == s.t_start_mC - cfg.hysteresis_mC
                idle == call.out.demand = cfg.pwm_min /\ ~call.out.active
            IN  call.temp_mC < s.t_crit_mC =>
                  /\ (~call.pre /\ call.temp_mC < on) => idle
                  /\ (~call.pre /\ call.temp_mC >= on) => call.out.active
                  /\ (call.pre /\ call.temp_mC > off) => call.out.active
                  /\ (call.pre /\ call.temp_mC <= off) => idle)
    /\ [][(/\ DemandCalled /\ call'.fn = call.fn
           /\ call'.id = call.id /\ call'.temp_mC = call.temp_mC
           /\ call.temp_mC > cfg.sources[call.id].t_start_mC - cfg.hysteresis_mC
           /\ call.temp_mC < cfg.sources[call.id].t_start_mC + cfg.hysteresis_mC)
             => call'.out.active = call.out.active]_vars

\* C14 witness: an inactive source called exactly at t_start + hysteresis
\* became active.
C14_Witness ==
    /\ DemandCalled
    /\ cfg.hysteresis_mC > 0
    /\ ~call.pre /\ call.out.active
    /\ call.temp_mC = cfg.sources[call.id].t_start_mC + cfg.hysteresis_mC

\* C14 witness of the band: an active source called inside the band stayed
\* active with a demand.
ActiveKeptInsideBand ==
    /\ DemandCalled
    /\ call.pre /\ call.out.active
    /\ call.temp_mC < cfg.sources[call.id].t_start_mC + cfg.hysteresis_mC
    /\ call.temp_mC > cfg.sources[call.id].t_start_mC

\* The ratio of the claim as a fraction: clamp((temp - t_start) / (t_full -
\* t_start), 0, 1) * (weight / 100), at most 1.
ClaimRatioDen(s) == (s.t_full_mC - s.t_start_mC) * 100

ClaimRatioNum(s, temp_mC) ==
    LET above == Max2(0, Min2(temp_mC - s.t_start_mC, s.t_full_mC - s.t_start_mC))
    IN  Min2(above * s.weight, ClaimRatioDen(s))

\* v is num / den rounded to the nearest integer, halves away from zero.
IsRounded(v, num, den) ==
    /\ 2 * Abs(v * den - num) <= den
    /\ 2 * Abs(v * den - num) = den => Abs(v * den) > Abs(num)

WeightedRatioApplied ==
    /\ DemandCalled
    /\ call.id = "modem" /\ call.temp_mC = 71000
    /\ call.out.active /\ ~call.out.critical
    /\ cfg.pwm_min # cfg.pwm_max
    /\ call.out.demand # cfg.pwm_max
    /\ call.out.demand # cfg.pwm_min

\* Positions at and after the destruction of BoardOwnershipGuard: the status
\* document, the registers, the pidfile and the lock are given back.
GuardUnwindPcs ==
    {"unwind_status", "unwind_pwm", "unwind_ctrl", "unwind_pidfile", "unwind_lock",
     "exit", "exited"}

\* C38: while the sampling units of a process run, nothing of its ownership
\* has been given back: its position is before the destruction of the guards,
\* the guards of the registers are still armed as the constructor left them,
\* its pidfile is in place and its lock is held.
C38_UnitsJoinedBeforeRestore ==
    \A p \in Procs :
        proc[p].mgr_running =>
            /\ proc[p].pc \notin GuardUnwindPcs
            /\ proc[p].control_armed
            /\ cfg.control_mode = "user" => proc[p].armed
            /\ proc[p].pidfile_guard
            /\ files.pidfile = p
            /\ proc[p].lock_held

\* C38 witness: an exception thrown inside the loop, while the units ran; the
\* units are joined and the registers, the pidfile and the lock are still to
\* be given back.
C38_Witness ==
    \E p \in Procs :
        /\ proc[p].thrown
        /\ proc[p].failedAt \in LoopPcs
        /\ proc[p].pc = "unwind_pwm"
        /\ ~proc[p].mgr_running
        /\ proc[p].armed /\ proc[p].control_armed
        /\ files.pidfile = p
        /\ proc[p].lock_held

\* The same on the exit by a signal.
JoinedBeforeRestoreOnSignal ==
    \E p \in Procs :
        /\ ~proc[p].thrown
        /\ proc[p].g_stop = 1
        /\ proc[p].pc = "unwind_pwm"
        /\ ~proc[p].mgr_running
        /\ proc[p].control_armed
        /\ proc[p].lock_held

\* C40: when the decision of a tick is computed the control-mode register
\* holds the value of the configured mode, whatever another writer left in
\* it before the tick; a tick whose rewrite of the register failed computes
\* no decision, the process unwinds with exit code 1 and, once it is gone,
\* its units are joined, its pidfile and lock given back and the registers
\* restored unless a restoring write failed twice.
C40_ModeEnforcedBeforeDecision ==
    \A p \in Procs :
        /\ proc[p].pc = "decide" => hw.mode = desired_control_mode_value(cfg)
        /\ proc[p].failedAt = "enforce" =>
               /\ proc[p].exit_code = 1
               /\ Unwinding(p) \/ Exited(p)
               /\ Exited(p) =>
                      /\ ~proc[p].mgr_running
                      /\ ~proc[p].lock_held
                      /\ files.pidfile # p
                      /\ ~proc[p].restoreFailed => RegsRestored(p)

\* C40 witness: the rewrite of the control mode at the start of a tick
\* failed, and the process is gone with exit code 1 and the registers as they
\* were before it started, the control mode among them differing from the
\* one the daemon requires.
C40_Witness ==
    \E p \in Procs :
        /\ Exited(p)
        /\ proc[p].failedAt = "enforce"
        /\ proc[p].exit_code = 1
        /\ proc[p].pre.mode # desired_control_mode_value(cfg)
        /\ RegsRestored(p)

\* ---------------------------------------------------------------------------
\* Specification of apply_ramp called tick after tick, each call fed the value
\* the previous call returned and the accumulator it left; the target may
\* change between calls
\* ---------------------------------------------------------------------------
\* Consecutive calls in one direction that are counted.
MaxRampCalls == 12

\* PWM values given as first input and as targets: the range 0..8 of most
\* configurations and values outside it.
RampPwm == 0..10

\* Accepted configurations: both directions, a tick of less than one PWM unit
\* (8 units in 12 s), an interval of 2 s, an empty span.
RampConfigs ==
    { board_config("user", 0, 8, 2, 1, 2),
      board_config("user", 8, 0, 2, 1, 2),
      [board_config("user", 0, 8, 2, 1, 2) EXCEPT !.ramp_up = 12, !.ramp_down = 5],
      [board_config("user", 0, 10, 2, 1, 2) EXCEPT !.interval_sec = 2, !.ramp_up = 3,
                                                   !.ramp_down = 7],
      board_config("user", 5, 5, 2, 1, 2) }

\* Direction of a call: "none" at the target or on an empty span.
RampDir(c, current_pwm, target_pwm) ==
    IF clamp_pwm(c, target_pwm) = clamp_pwm(c, current_pwm) \/ c.pwm_max = c.pwm_min
    THEN "none"
    ELSE IF is_stronger_cooling_pwm(clamp_pwm(c, target_pwm), clamp_pwm(c, current_pwm), c)
    THEN "stronger" ELSE "weaker"

RampInit ==
    /\ cfg \in RampConfigs
    /\ active = [id \in SourceIds |-> FALSE]
    /\ call \in [fn : {"ramp_start"}, target : RampPwm, input : RampPwm, next : RampPwm,
                 acc : {NoCredit}, dir : {"none"}, n : {0}, from : RampPwm,
                 limited : {FALSE}, prev : {"none"}, before : {NoCredit}]
    /\ call.input = call.next /\ call.from = call.next
    /\ Quiet

\* One tick: n counts the calls of the current run in one direction, from is
\* the (bounded) PWM at which the run began, limited tells that the run had
\* reached an earlier target; prev is the direction of the call before and
\* before the accumulator the call was given.
RampStep(target_pwm) ==
    /\ call.n < MaxRampCalls
    /\ LET out == apply_ramp(call.next, target_pwm, cfg, call.acc)
           dir == RampDir(cfg, call.next, target_pwm)
           same == dir = call.dir
       IN  call' = [fn |-> "apply_ramp", target |-> target_pwm, input |-> call.next,
                    next |-> out.next, acc |-> out.acc, dir |-> dir,
                    n |-> IF dir = "none" THEN 0 ELSE IF same THEN call.n + 1 ELSE 1,
                    from |-> IF dir = "none" THEN out.next
                             ELSE IF same THEN call.from ELSE clamp_pwm(cfg, call.next),
                    limited |-> dir # "none" /\ same /\ call.limited,
                    prev |-> call.dir, before |-> call.acc]
    /\ UNCHANGED <<cfg, active, quietVars>>

RampCall == RampStep(call.target)

\* The decision of a later tick gives another target.
Retarget(target_pwm) ==
    /\ call.fn = "apply_ramp"
    /\ target_pwm # call.target
    /\ call' = [call EXCEPT !.fn = "retarget", !.target = target_pwm,
                            !.limited = @ \/ call.next = clamp_pwm(cfg, call.target)]
    /\ UNCHANGED <<cfg, active, quietVars>>

RampNext ==
    \/ RampCall
    \/ \E target_pwm \in RampPwm : Retarget(target_pwm)

SpecRamp == RampInit /\ [][RampNext]_vars

\* ---------------------------------------------------------------------------
\* Properties of the ramp
\* ---------------------------------------------------------------------------
RampCalled == call.fn = "apply_ramp"

\* Input and target of the latest call as apply_ramp bounds them.
BoundedInput == clamp_pwm(cfg, call.input)
BoundedTarget == clamp_pwm(cfg, call.target)

\* Seconds of the ramp in the direction of the latest call.
RampSecOf(dir) == Max2(1, IF dir = "stronger" THEN cfg.ramp_up ELSE cfg.ramp_down)

\* PWM units times ramp seconds a tick is worth.
PerTickCredit == Abs(cfg.pwm_max - cfg.pwm_min) * Max2(1, cfg.interval_sec)

\* C16 as stated: while the input differs from the target every call returns
\* a value strictly closer to the target, and at the target the call returns
\* its input. Violated when a tick is worth less than one PWM unit.
C16_StrictlyCloserEachCall ==
    RampCalled =>
        /\ BoundedInput # BoundedTarget =>
               Abs(BoundedTarget - call.next) < Abs(BoundedTarget - BoundedInput)
        /\ BoundedInput = BoundedTarget => call.next = BoundedInput

\* C16: a call never moves away from the target nor past it; it returns a
\* value strictly closer whenever the credit of the tick and what was carried
\* reach one PWM unit, which every call does when |pwm_max - pwm_min| *
\* interval_sec >= ramp_sec; otherwise it returns its input and keeps the
\* credit; at the target it returns its input unchanged.
C16_CloserOrCreditCarried ==
    RampCalled =>
        /\ Min2(BoundedInput, BoundedTarget) <= call.next
        /\ call.next <= Max2(BoundedInput, BoundedTarget)
        /\ BoundedInput = BoundedTarget => call.next = BoundedInput
        /\ (call.dir # "none" /\ PerTickCredit >= RampSecOf(call.dir)) =>
               Abs(BoundedTarget - call.next) < Abs(BoundedTarget - BoundedInput)
        /\ (call.dir # "none" /\ call.next = BoundedInput) =>
               /\ PerTickCredit < RampSecOf(call.dir)
               /\ call.acc[call.dir] # DoubleZero
               /\ DoubleFloor(call.acc[call.dir]) = 0

\* A slow ramp: the first call of a run keeps the PWM.
C16_Witness ==
    /\ RampCalled /\ call.dir = "stronger" /\ call.n = 1
    /\ BoundedInput # BoundedTarget
    /\ call.next = BoundedInput

\* A call whose step would pass the target stops at it.
RampStopsAtTarget ==
    /\ RampCalled /\ call.dir # "none"
    /\ call.next = BoundedTarget
    /\ Abs(BoundedTarget - BoundedInput) * RampSecOf(call.dir) < PerTickCredit

\* C17 as stated: after N consecutive ticks in one direction, none of which
\* was held back by its target, the PWM has moved by
\* floor(N * |pwm_max - pwm_min| * interval_sec / ramp_sec) units, or has
\* reached the target where that is nearer; a sweep over the full span is
\* complete once N * interval_sec >= ramp_sec.
C17_CumulativeMovement ==
    (RampCalled /\ call.dir # "none" /\ ~call.limited) =>
        Abs(call.next - call.from) =
            Min2(Abs(BoundedTarget - call.from),
                 (call.n * PerTickCredit) \div RampSecOf(call.dir))

\* What the rounding of the credit leaves of C17: the movement is never more
\* than the stated amount and falls short of it by at most one unit.
RampLagsAtMostOne ==
    (RampCalled /\ call.dir # "none" /\ ~call.limited) =>
        LET stated == Min2(Abs(BoundedTarget - call.from),
                           (call.n * PerTickCredit) \div RampSecOf(call.dir))
        IN  /\ Abs(call.next - call.from) <= stated
            /\ Abs(call.next - call.from) >= stated - 1

\* A sweep over the full span still short of its end after ramp_sec seconds.
SweepLate ==
    /\ RampCalled /\ call.dir # "none" /\ ~call.limited
    /\ call.from = min_cooling_pwm(cfg) \/ call.from = max_cooling_pwm(cfg)
    /\ Abs(BoundedTarget - call.from) = Abs(cfg.pwm_max - cfg.pwm_min)
    /\ call.n * Max2(1, cfg.interval_sec) >= RampSecOf(call.dir)
    /\ call.next # BoundedTarget

\* A tick with whole credit per tick: the stated amount is reached.
SweepOnTime ==
    /\ RampCalled /\ call.dir = "stronger" /\ ~call.limited
    /\ Abs(BoundedTarget - call.from) = Abs(cfg.pwm_max - cfg.pwm_min)
    /\ call.n * Max2(1, cfg.interval_sec) = RampSecOf(call.dir)
    /\ call.next = BoundedTarget

\* The most one call may move the PWM in a direction:
\* ceil(|pwm_max - pwm_min| * interval_sec / ramp_sec).
MaxStep(dir) == (PerTickCredit + RampSecOf(dir) - 1) \div RampSecOf(dir)

\* The direction opposite to a direction.
OtherDir(dir) == IF dir = "stronger" THEN "weaker" ELSE "stronger"

\* C39: a call returns a value between its bounded input and its bounded
\* target; it moves the PWM by at most ceil(|pwm_max - pwm_min| *
\* interval_sec / ramp_sec) of the direction it applies, whatever the
\* accumulator held for either direction before the call, and it leaves no
\* credit for the other direction.
C39_StepWithinBoundsAndRate ==
    RampCalled =>
        /\ Min2(BoundedInput, BoundedTarget) <= call.next
        /\ call.next <= Max2(BoundedInput, BoundedTarget)
        /\ call.dir = "none" => call.next = BoundedInput
        /\ call.dir # "none" =>
               /\ Abs(call.next - BoundedInput) <= MaxStep(call.dir)
               /\ call.acc[OtherDir(call.dir)] = DoubleZero

\* C39 witness: the direction is reversed while credit of the former
\* direction is pending; the call, not held back by its target, moves by the
\* whole units of one tick of its own direction and the pending credit is
\* gone.
C39_Witness ==
    /\ RampCalled
    /\ call.prev = "stronger" /\ call.dir = "weaker"
    /\ call.before.stronger # DoubleZero
    /\ call.next # BoundedTarget
    /\ call.next # BoundedInput
    /\ Abs(call.next - BoundedInput) = PerTickCredit \div RampSecOf("weaker")
    /\ call.acc.stronger = DoubleZero

\* The first call after the target was reached and moved on: no credit is
\* left from the step that was cut short by the target.
FirstCallAfterTargetReached ==
    /\ RampCalled
    /\ call.limited /\ call.prev = call.dir /\ call.dir # "none"
    /\ call.before[call.dir] # DoubleZero
    /\ Abs(call.next - BoundedInput) = MaxStep(call.dir)

\* Ticks in which a sweep towards stronger cooling is said to be complete:
\* ceil(ramp_up / interval_sec).
SweepTicks == (RampSecOf("stronger") + Max2(1, cfg.interval_sec) - 1) \div Max2(1, cfg.interval_sec)

\* C37: with the target at the max-cooling PWM and each call fed the value
\* the call before it wrote, the PWM is at the max-cooling PWM after
\* ceil(ramp_up / interval_sec) calls, and a call made there keeps it.
C37_MaxCoolingReachedInTime ==
    (RampCalled /\ BoundedTarget = max_cooling_pwm(cfg)) =>
        /\ (call.dir = "stronger" /\ ~call.limited /\ call.n >= SweepTicks) =>
               call.next = max_cooling_pwm(cfg)
        /\ BoundedInput = max_cooling_pwm(cfg) => call.next = max_cooling_pwm(cfg)

\* The sweep from the min-cooling PWM with ramp_up 12 and the span 8: the
\* twelfth call leaves the PWM one unit short.
SweepUpLate ==
    /\ RampCalled /\ call.dir = "stronger" /\ call.n = 12
    /\ cfg.ramp_up = 12
    /\ call.from = min_cooling_pwm(cfg)
    /\ call.target = max_cooling_pwm(cfg)
    /\ call.next = max_cooling_pwm(cfg) - 1

\* What holds of the sweep: one call more than stated completes it.
MaxCoolingReachedOneTickLater ==
    (/\ RampCalled /\ BoundedTarget = max_cooling_pwm(cfg)
     /\ call.dir = "stronger" /\ ~call.limited /\ call.n >= SweepTicks + 1) =>
        call.next = max_cooling_pwm(cfg)

\* ---------------------------------------------------------------------------
\* Specification of one decision followed by the ramp towards its target,
\* for configurations whose pwm_min is above pwm_max
\* ---------------------------------------------------------------------------
\* Accepted configurations with pwm_min > pwm_max: a fail-safe level inside
\* and one outside the bounds.
DirectionConfigs ==
    { board_config("user", 8, 0, 2, 1, 2),
      board_config("user", 200, 50, 230, 1, 2) }

\* Source states seen by the decision: nothing polled, a failure, a good
\* sample now or MaxAgeTicks ago, a failure after a good sample.
DirectionSnapshots(tnow) ==
    {Unpolled}
    \cup { store_sample(Unpolled, TempSample(FALSE, 0, tnow - a)) : a \in {0, MaxAgeTicks} }
    \cup { store_sample(Unpolled, TempSample(TRUE, temp, tnow - a)) :
              a \in {0, MaxAgeTicks}, temp \in DecisionTemps }
    \cup { store_sample(store_sample(Unpolled, TempSample(TRUE, temp, tnow - b)),
                        TempSample(FALSE, 0, tnow)) :
              b \in {1, MaxAgeTicks}, temp \in DecisionTemps }

DirectionInit ==
    /\ cfg \in DirectionConfigs
    /\ now = MaxAgeTicks
    /\ src \in [SourceIds -> DirectionSnapshots(MaxAgeTicks)]
    /\ unit = [id \in SourceIds |-> [pc |-> "wait", next_deadline |-> 0, start_ts |-> 0]]
    /\ failSince = [id \in SourceIds |-> -1]
    /\ active \in [SourceIds -> BOOLEAN]
    /\ nextTickAt = MaxAgeTicks
    /\ lastTick = [done |-> FALSE, at |-> 0,
                   snaps |-> [id \in SourceIds |-> Unpolled],
                   preActive |-> [id \in SourceIds |-> FALSE],
                   failSince |-> [id \in SourceIds |-> -1],
                   decision |-> [target_pwm |-> 0, any_valid |-> FALSE,
                                 any_timeout |-> FALSE, critical |-> FALSE],
                   telemetry |-> [id \in SourceIds |-> NoDemand(FALSE)]]
    /\ staleRun = 0
    /\ DaemonIdle
    /\ \E pwm \in {cfg.pwm_min, cfg.pwm_max, (cfg.pwm_min + cfg.pwm_max) \div 2} :
           call = [fn |-> "ramp_start", target |-> pwm, input |-> pwm, next |-> pwm,
                   acc |-> NoCredit, dir |-> "none", n |-> 0, from |-> pwm,
                   limited |-> FALSE]

\* A tick of the loop after the decision: one ramp step towards its target.
RampToTarget ==
    /\ lastTick.done
    /\ RampStep(lastTick.decision.target_pwm)
    /\ call' # call

DirectionNext ==
    \/ Tick
    \/ RampToTarget

SpecDirection == DirectionInit /\ [][DirectionNext]_vars

\* The mirror image of a PWM value within the bounds of configuration c.
Mirror(c, v) == c.pwm_min + c.pwm_max - v

\* The same configuration with the two bounds swapped.
SwappedBounds(c) == [c EXCEPT !.pwm_min = c.pwm_max, !.pwm_max = c.pwm_min]

\* The bounds swapped and the fail-safe level mirrored with them.
SwappedMirrored(c) == [SwappedBounds(c) EXCEPT !.failsafe_pwm = Mirror(c, c.failsafe_pwm)]

\* The decision of the last tick is the mirror image of the decision that
\* configuration sw takes on the same inputs: same flags and hysteresis
\* states, mirrored demands and target.
DecisionMirrors(sw) ==
    lastTick.done =>
        LET out == compute_target_decision(sw, lastTick.snaps, lastTick.at,
                                           lastTick.preActive)
        IN  /\ lastTick.decision.target_pwm = Mirror(cfg, out.decision.target_pwm)
            /\ lastTick.decision.critical = out.decision.critical
            /\ lastTick.decision.any_valid = out.decision.any_valid
            /\ lastTick.decision.any_timeout = out.decision.any_timeout
            /\ active = out.active
            /\ \A id \in SourceIds :
                   /\ lastTick.telemetry[id].valid = out.telemetry[id].valid
                   /\ lastTick.telemetry[id].valid =>
                          lastTick.telemetry[id].demand_pwm =
                              Mirror(cfg, out.telemetry[id].demand_pwm)

\* A ramp step is the mirror image of the step that configuration sw takes
\* from the mirrored value towards the mirrored target: same direction, so
\* the same one of ramp_up and ramp_down, same credits, mirrored result.
RampMirrors(sw) ==
    call'.fn = "apply_ramp" =>
        LET out == apply_ramp(Mirror(cfg, call.next), Mirror(cfg, call'.target),
                              sw, call.acc)
        IN  /\ call'.next = Mirror(cfg, out.next)
            /\ call'.acc = out.acc
            /\ call'.dir = RampDir(sw, Mirror(cfg, call.next), Mirror(cfg, call'.target))

\* C18 as stated: with pwm_min > pwm_max, demand, arbitration, the critical
\* and blind overrides, the fail-safe floor and the ramp give the mirror
\* image of what the same configuration with only the two bounds swapped gives.
C18_MirrorOfSwappedBounds ==
    /\ [](DecisionMirrors(SwappedBounds(cfg)))
    /\ [][RampMirrors(SwappedBounds(cfg))]_vars

\* C18: the mirror image is that of the configuration with the two bounds
\* swapped and failsafe_pwm, a register value, mirrored along with them.
C18_MirrorOfSwappedConfig ==
    /\ [](DecisionMirrors(SwappedMirrored(cfg)))
    /\ [][RampMirrors(SwappedMirrored(cfg))]_vars

\* A stale source next to an idle one: the fail-safe floor is the target and
\* the ramp has moved towards it.
C18_Witness ==
    /\ cfg.pwm_min > cfg.pwm_max
    /\ lastTick.done
    /\ lastTick.decision.any_timeout /\ lastTick.decision.any_valid
    /\ ~lastTick.decision.critical
    /\ lastTick.decision.target_pwm = clamp_pwm(cfg, cfg.failsafe_pwm)
    /\ \E id \in SourceIds : /\ lastTick.telemetry[id].valid
                             /\ lastTick.telemetry[id].demand_pwm = cfg.pwm_min
    /\ RampCalled /\ call.next # call.input

\* A demand strictly between the bounds wins the arbitration and the ramp
\* weakens the cooling towards it.
MirroredRampDown ==
    /\ lastTick.done /\ ~lastTick.decision.any_timeout
    /\ lastTick.decision.target_pwm \notin {cfg.pwm_min, cfg.pwm_max}
    /\ RampCalled /\ call.dir = "weaker" /\ call.next > call.input

\* ---------------------------------------------------------------------------
\* Configuration validation (board_config.cpp, config_spec.cpp)
\* ---------------------------------------------------------------------------
\* board_config_spec(): bounds of the integer fields.
ConfigSpec ==
    [interval_sec  |-> [min_value |-> 1, max_value |-> 0, has_max |-> FALSE],
     pwm_min       |-> [min_value |-> 0, max_value |-> 255, has_max |-> TRUE],
     pwm_max       |-> [min_value |-> 0, max_value |-> 255, has_max |-> TRUE],
     ramp_up       |-> [min_value |-> 1, max_value |-> 0, has_max |-> FALSE],
     ramp_down     |-> [min_value |-> 1, max_value |-> 0, has_max |-> FALSE],
     hysteresis_mC |-> [min_value |-> 0, max_value |-> 0, has_max |-> FALSE],
     failsafe_pwm  |-> [min_value |-> 0, max_value |-> 255, has_max |-> TRUE],
     t_start_mC    |-> [min_value |-> -273150, max_value |-> 300000, has_max |-> TRUE],
     t_full_mC     |-> [min_value |-> -273150, max_value |-> 300000, has_max |-> TRUE],
     t_crit_mC     |-> [min_value |-> -273150, max_value |-> 300000, has_max |-> TRUE],
     ttl_sec       |-> [min_value |-> 1, max_value |-> 0, has_max |-> FALSE],
     poll_sec      |-> [min_value |-> 1, max_value |-> 0, has_max |-> FALSE],
     weight        |-> [min_value |-> 1, max_value |-> 200, has_max |-> TRUE]]

ControlModeValues == {"kernel", "user"}
DefaultControlMode == "kernel"
DefaultControlModePath == "/sys/class/thermal/thermal_zone0/mode"

\* trim, to_lower_ascii, canonicalize_path_text and
\* canonicalize_json_object_text on the texts that occur in the documents.
trim(s) ==
    CASE s = " User " -> "User"
      [] s = " /sys/pwm1 " -> "/sys/pwm1"
      [] s = " /sys/t1 " -> "/sys/t1"
      [] s = " qmodem" -> "qmodem"
      [] s = " " -> ""
      [] OTHER -> s

to_lower_ascii(s) ==
    CASE s = "User" -> "user"
      [] s = "SYSFS" -> "sysfs"
      [] OTHER -> s

canonicalize_path_text(s) ==
    CASE s = "/sys//t1" -> "/sys/t1"
      [] s = "/sys/./t2" -> "/sys/t2"
      [] s = "/sys/x/../t1" -> "/sys/t1"
      [] OTHER -> s

canonicalize_json_object_text(s) ==
    CASE s = "{ }" -> "{}"
      [] OTHER -> s

\* canonicalize_json_object_text returns: the text parses as a JSON object.
json_is_object(s) == s \in {"{}", "{ }"}

is_valid_source_id(id) == id \in {"soc", "nvme", "rm500q-gl"}

\* path.front() == '/'
front_is_slash(s) ==
    s \in {"/sys/t1", "/sys/t2", "/sys//t1", "/sys/./t2", "/sys/pwm1", "/sys/x/../t1"}

\* Faulty variant: the upper bound is never looked at.
ensure_int_in_range_no_max(value, field) == value >= field.min_value

\* ensure_int_in_range: TRUE when it returns, FALSE when it throws.
ensure_int_in_range(value, field) ==
    /\ value >= field.min_value
    /\ ~(field.has_max /\ value > field.max_value)

source_resource_key(s) ==
    IF s.type = "sysfs" THEN "sysfs:" \o s.path
    ELSE IF s.type = "ubus"
    THEN "ubus:" \o s.object \o "|" \o s.method \o "|" \o s.key \o "|" \o s.args_json
    ELSE s.type \o ":"

Rejected(doc, why) == [ok |-> FALSE, error |-> why, cfg |-> doc]

\* The body of the loop over the sources: the source as it is left, or the
\* error thrown.
validate_source(s0, seen_source_ids, seen_resource_owner) ==
    LET s == [s0 EXCEPT !.id = trim(@), !.type = to_lower_ascii(trim(@)),
                        !.path = trim(@), !.object = trim(@), !.method = trim(@),
                        !.key = trim(@), !.args_json = trim(@)]
        sysfs == [s EXCEPT !.path = canonicalize_path_text(@), !.object = "",
                           !.method = "", !.key = "", !.args_json = ""]
        ubus == [s EXCEPT !.args_json = canonicalize_json_object_text(
                                            IF @ = "" THEN "{}" ELSE @),
                          !.path = ""]
        done == IF s.type = "sysfs" THEN sysfs ELSE ubus
    IN  IF ~is_valid_source_id(s.id) THEN [error |-> "invalid SOURCE id", src |-> s]
        ELSE IF s.id \in seen_source_ids THEN [error |-> "duplicate SOURCE id", src |-> s]
        ELSE IF s.poll_sec < ConfigSpec.poll_sec.min_value THEN [error |-> "poll", src |-> s]
        ELSE IF s.ttl_sec < ConfigSpec.ttl_sec.min_value THEN [error |-> "ttl", src |-> s]
        ELSE IF s.ttl_sec < s.poll_sec THEN [error |-> "ttl must be >= poll", src |-> s]
        ELSE IF ~ensure_int_in_range(s.weight, ConfigSpec.weight)
        THEN [error |-> "weight", src |-> s]
        ELSE IF ~ensure_int_in_range(s.t_start_mC, ConfigSpec.t_start_mC)
        THEN [error |-> "t_start", src |-> s]
        ELSE IF ~ensure_int_in_range(s.t_full_mC, ConfigSpec.t_full_mC)
        THEN [error |-> "t_full", src |-> s]
        ELSE IF ~ensure_int_in_range(s.t_crit_mC, ConfigSpec.t_crit_mC)
        THEN [error |-> "t_crit", src |-> s]
        ELSE IF ~(s.t_start_mC < s.t_full_mC /\ s.t_full_mC <= s.t_crit_mC)
        THEN [error |-> "invalid thermal thresholds", src |-> s]
        ELSE IF s.type = "sysfs" /\ s.path = "" THEN [error |-> "path", src |-> s]
        ELSE IF s.type = "sysfs" /\ (sysfs.path = "" \/ ~front_is_slash(sysfs.path))
        THEN [error |-> "absolute path", src |-> sysfs]
        ELSE IF s.type = "ubus" /\ (s.object = "" \/ s.method = "" \/ s.key = "")
        THEN [error |-> "ubus fields", src |-> s]
        ELSE IF s.type = "ubus" /\ ~json_is_object(IF s.args_json = "" THEN "{}" ELSE s.args_json)
        THEN [error |-> "invalid JSON", src |-> s]
        ELSE IF s.type \notin {"sysfs", "ubus"} THEN [error |-> "source type", src |-> s]
        ELSE IF source_resource_key(done) \in seen_resource_owner
        THEN [error |-> "duplicate source resource", src |-> done]
        ELSE [error |-> "", src |-> done]

\* Faulty variant: only the resource of the source just before is remembered.
RECURSIVE validate_sources_forgets_owner(_, _, _, _)
validate_sources_forgets_owner(todo, done, seen_source_ids, seen_resource_owner) ==
    IF todo = <<>> THEN [error |-> "", sources |-> done]
    ELSE LET r == validate_source(Head(todo), seen_source_ids, seen_resource_owner)
         IN  IF r.error # "" THEN [error |-> r.error, sources |-> done]
             ELSE validate_sources_forgets_owner(Tail(todo), Append(done, r.src),
                                                 seen_source_ids \cup {r.src.id},
                                                 {source_resource_key(r.src)})

RECURSIVE validate_sources(_, _, _, _)
validate_sources(todo, done, seen_source_ids, seen_resource_owner) ==
    IF todo = <<>> THEN [error |-> "", sources |-> done]
    ELSE LET r == validate_source(Head(todo), seen_source_ids, seen_resource_owner)
         IN  IF r.error # "" THEN [error |-> r.error, sources |-> done]
             ELSE validate_sources(Tail(todo), Append(done, r.src),
                                   seen_source_ids \cup {r.src.id},
                                   seen_resource_owner \cup {source_resource_key(r.src)})

\* validate_board_config: the configuration as it is left, or the error
\* thrown (ok is FALSE).
validate_board_config(doc) ==
    LET mode1 == to_lower_ascii(trim(doc.control_mode))
        mode == IF mode1 = "" THEN DefaultControlMode ELSE mode1
        c1 == [doc EXCEPT !.control_mode = mode,
                          !.pwm_path = trim(@),
                          !.pwm_enable_path = trim(@),
                          !.control_mode_path = trim(@)]
        c2 == [c1 EXCEPT !.pwm_enable_path = IF @ = "" THEN c1.pwm_path \o "_enable" ELSE @,
                         !.control_mode_path = IF @ = "" THEN DefaultControlModePath ELSE @]
        srcs == validate_sources(c2.sources, <<>>, {}, {})
    IN  IF mode \notin ControlModeValues THEN Rejected(doc, "CONTROL_MODE")
        ELSE IF ~ensure_int_in_range(c1.interval_sec, ConfigSpec.interval_sec)
        THEN Rejected(doc, "INTERVAL")
        ELSE IF c1.pwm_path = "" THEN Rejected(doc, "PWM_PATH")
        ELSE IF ~ensure_int_in_range(c2.pwm_min, ConfigSpec.pwm_min)
        THEN Rejected(doc, "PWM_MIN")
        ELSE IF ~ensure_int_in_range(c2.pwm_max, ConfigSpec.pwm_max)
        THEN Rejected(doc, "PWM_MAX")
        ELSE IF ~ensure_int_in_range(c2.failsafe_pwm, ConfigSpec.failsafe_pwm)
        THEN Rejected(doc, "FAILSAFE_PWM")
        ELSE IF ~ensure_int_in_range(c2.ramp_up, ConfigSpec.ramp_up)
        THEN Rejected(doc, "RAMP_UP")
        ELSE IF ~ensure_int_in_range(c2.ramp_down, ConfigSpec.ramp_down)
        THEN Rejected(doc, "RAMP_DOWN")
        ELSE IF ~ensure_int_in_range(c2.hysteresis_mC, ConfigSpec.hysteresis_mC)
        THEN Rejected(doc, "HYSTERESIS_MC")
        ELSE IF srcs.error # "" THEN Rejected(doc, srcs.error)
        ELSE IF c2.sources = <<>> THEN Rejected(doc, "no SOURCE")
        ELSE [ok |-> TRUE, error |-> "", cfg |-> [c2 EXCEPT !.sources = srcs.sources]]

\* ---------------------------------------------------------------------------
\* Specification of validate_board_config applied to parsed documents
\* ---------------------------------------------------------------------------
DocSoc ==
    [id |-> "soc", type |-> "sysfs", path |-> "/sys//t1", object |-> "", method |-> "",
     key |-> "", args_json |-> "", t_start_mC |-> 60000, t_full_mC |-> 82000,
     t_crit_mC |-> 90000, ttl_sec |-> 6, poll_sec |-> 1, weight |-> 100]

DocModem ==
    [id |-> "rm500q-gl", type |-> "ubus", path |-> "", object |-> "qmodem",
     method |-> "get_temperature", key |-> "temp_mC", args_json |-> "{ }",
     t_start_mC |-> 58000, t_full_mC |-> 76000, t_crit_mC |-> 85000,
     ttl_sec |-> 20, poll_sec |-> 10, weight |-> 130]

\* Source lists of the documents: valid ones and one for each error.
DocSources ==
    { <<DocSoc>>, <<DocSoc, DocModem>>, <<>>,
      <<[DocSoc EXCEPT !.type = "SYSFS"]>>,
      <<DocSoc, DocSoc>>,
      <<DocSoc, [DocSoc EXCEPT !.id = "nvme"]>>,
      <<DocSoc, [DocSoc EXCEPT !.id = "nvme", !.path = "/sys/./t2"]>>,
      <<[DocSoc EXCEPT !.id = "so c"]>>,
      <<[DocSoc EXCEPT !.poll_sec = 0]>>,
      <<[DocSoc EXCEPT !.ttl_sec = 0]>>,
      <<[DocModem EXCEPT !.ttl_sec = 5]>>,
      <<[DocSoc EXCEPT !.weight = 201]>>,
      <<[DocSoc EXCEPT !.t_start_mC = -273151]>>,
      <<[DocSoc EXCEPT !.t_crit_mC = 300001]>>,
      <<[DocSoc EXCEPT !.t_full_mC = 60000]>>,
      <<[DocSoc EXCEPT !.path = " "]>>,
      <<[DocSoc EXCEPT !.path = "sys/t1"]>>,
      <<[DocModem EXCEPT !.key = ""]>>,
      <<[DocModem EXCEPT !.args_json = ""]>>,
      <<[DocModem EXCEPT !.args_json = "[1]"]>>,
      <<[DocSoc EXCEPT !.type = "exec"]>>,
      <<DocSoc, DocModem, [DocSoc EXCEPT !.id = "nvme", !.path = " /sys/t1 "]>>,
      <<DocSoc, DocModem, [DocSoc EXCEPT !.id = "nvme", !.type = "SYSFS",
                                         !.path = "/sys/x/../t1", !.object = "qmodem"]>>,
      <<DocModem, [DocModem EXCEPT !.id = "nvme", !.args_json = "{}"]>>,
      <<DocModem, DocSoc, [DocModem EXCEPT !.id = "nvme", !.args_json = "",
                                           !.object = " qmodem", !.path = "/sys/t2"]>>,
      <<DocModem, [DocModem EXCEPT !.id = "nvme", !.key = "temp2_mC"]>>,
      <<DocModem, [DocSoc EXCEPT !.id = "nvme", !.path = "/sys/t2", !.object = "qmodem",
                                 !.method = "get_temperature", !.key = "temp_mC",
                                 !.args_json = "{ }"]>> }

\* PWM register values in the documents: the ends of the range, one inside,
\* one beyond each end.
DocPwm == {-1, 0, 100, 255, 256}

DocBase ==
    [interval_sec |-> 1, control_mode |-> "user", pwm_path |-> "/sys/pwm1",
     pwm_enable_path |-> "", control_mode_path |-> "",
     pwm_min |-> 0, pwm_max |-> 255, failsafe_pwm |-> 64,
     ramp_up |-> 5, ramp_down |-> 10, hysteresis_mC |-> 2000, sources |-> <<DocSoc>>]

\* Parsed documents and payloads: every pair of PWM bounds with every source
\* list and control mode, and the other fields at and beyond their bounds.
Documents ==
    { [DocBase EXCEPT !.pwm_min = lo, !.pwm_max = hi, !.control_mode = mode,
                      !.sources = srcs] :
          lo \in DocPwm, hi \in DocPwm, mode \in {"user", " User ", "", "auto"},
          srcs \in DocSources }
    \cup
    { [DocBase EXCEPT !.pwm_min = lo, !.pwm_max = hi, !.interval_sec = interval,
                      !.ramp_up = up, !.ramp_down = down, !.hysteresis_mC = hyst,
                      !.failsafe_pwm = fs, !.pwm_path = path] :
          lo \in {0, 255}, hi \in {0, 255}, interval \in {0, 1}, up \in {0, 1},
          down \in {0, 1}, hyst \in {-1, 0}, fs \in {-1, 0, 255, 256},
          path \in {"", " /sys/pwm1 "} }

ValidateInit ==
    /\ cfg = board_config("user", 0, 255, 64, 1, 2)
    /\ active = [id \in SourceIds |-> FALSE]
    /\ \E doc \in Documents :
           call = [fn |-> "document", doc |-> doc, out |-> Rejected(doc, "")]
    /\ Quiet

\* load_board_config or the daemon validates the parsed document.
Validate ==
    /\ call.fn = "document"
    /\ call' = [fn |-> "validate_board_config", doc |-> call.doc,
                out |-> validate_board_config(call.doc)]
    /\ UNCHANGED <<cfg, active, quietVars>>

SpecValidate == ValidateInit /\ [][Validate]_vars

Validated == call.fn = "validate_board_config"

\* The integer fields of a document lie within the bounds of ConfigSpec.
FieldsInRange(doc) ==
    /\ doc.interval_sec >= 1
    /\ doc.pwm_min \in 0..255 /\ doc.pwm_max \in 0..255 /\ doc.failsafe_pwm \in 0..255
    /\ doc.ramp_up >= 1 /\ doc.ramp_down >= 1 /\ doc.hysteresis_mC >= 0

\* C19 as stated: a document whose pwm_min is greater than its pwm_max is
\* rejected, never accepted and never corrected.
C19_ReversedBoundsRejected ==
    (Validated /\ call.doc.pwm_min > call.doc.pwm_max) => ~call.out.ok

\* C19: validation enforces 0 <= pwm_min <= 255 and 0 <= pwm_max <= 255
\* and nothing about their order: a bound outside the range is a hard error,
\* a document with pwm_min > pwm_max is accepted like one with
\* pwm_min <= pwm_max, and an accepted document keeps both bounds as given.
C19_BoundsRangeOnly ==
    Validated =>
        /\ call.out.ok => /\ FieldsInRange(call.doc)
                          /\ call.out.cfg.pwm_min = call.doc.pwm_min
                          /\ call.out.cfg.pwm_max = call.doc.pwm_max
        /\ (call.doc.pwm_min \notin 0..255 \/ call.doc.pwm_max \notin 0..255) => ~call.out.ok
        /\ call.out.ok = validate_board_config(
                             [call.doc EXCEPT !.pwm_min = call.doc.pwm_max,
                                              !.pwm_max = call.doc.pwm_min]).ok

\* An accepted document with pwm_min above pwm_max.
C19_Witness ==
    /\ Validated /\ call.out.ok
    /\ call.doc.pwm_min = 255 /\ call.doc.pwm_max = 0
    /\ call.out.cfg.pwm_min = 255 /\ call.out.cfg.pwm_max = 0

\* A document rejected for a bound beyond the range.
BoundOutOfRangeRejected ==
    /\ Validated /\ ~call.out.ok
    /\ call.doc.pwm_max = 256 /\ call.out.error = "PWM_MAX"

\* ---------------------------------------------------------------------------
\* Specification of one instance with the sleep between ticks in its steps:
\* for (i = 0; i < interval_sec && !g_stop; ++i) sleep_for(seconds(1)),
\* on a clock of TicksPerSec ticks per second; every system call succeeds
\* ---------------------------------------------------------------------------
\* Accepted configurations: a sleep of one and of two seconds.
SleepConfigs ==
    { [board_config("user", 0, 8, 2, 1, 2) EXCEPT !.ramp_down = 4, !.interval_sec = i] :
          i \in {1, 2} }

\* The locals of the sleep: the loop counter, the ticks since the sleep
\* began and the tick at which the current sleep_for returns.
SleepLocals ==
    IF call.fn = "sleep" THEN call
    ELSE [fn |-> "sleep", i |-> 0, clock |-> 0, wake_at |-> 0]

\* i < cfg.interval_sec && !g_stop: another sleep_for of one second begins,
\* or the sleep is over.
SleepTest(p) ==
    /\ proc[p].pc = "sleep"
    /\ IF SleepLocals.i < cfg.interval_sec /\ proc[p].g_stop = 0
       THEN /\ SetProc(p, [proc[p] EXCEPT !.pc = "sleep_for"])
            /\ call' = [SleepLocals EXCEPT !.wake_at = SleepLocals.clock + TicksPerSec]
       ELSE /\ SetProc(p, [proc[p] EXCEPT !.pc = "loop"])
            /\ call' = NoCall
    /\ UNCHANGED <<policyVars, hw, files>>

\* sleep_for returns once its second has passed, a signal handler having run
\* or not; ++i.
SleepForReturns(p) ==
    /\ proc[p].pc = "sleep_for"
    /\ call.clock >= call.wake_at
    /\ SetProc(p, [proc[p] EXCEPT !.pc = "sleep"])
    /\ call' = [call EXCEPT !.i = @ + 1]
    /\ UNCHANGED <<policyVars, hw, files>>

\* The clock ticks while the process is blocked in sleep_for.
TimePasses ==
    /\ \E p \in Procs : proc[p].pc = "sleep_for"
    /\ call.clock < call.wake_at
    /\ call' = [call EXCEPT !.clock = @ + 1]
    /\ UNCHANGED <<policyVars, daemonVars>>

SleepInit ==
    /\ cfg \in SleepConfigs
    /\ now = MaxAgeTicks
    /\ src \in DaemonSnapshots(MaxAgeTicks)
    /\ unit = [id \in SourceIds |-> [pc |-> "wait", next_deadline |-> 0, start_ts |-> 0]]
    /\ failSince = [id \in SourceIds |-> -1]
    /\ active = [id \in SourceIds |-> FALSE]
    /\ nextTickAt = MaxAgeTicks
    /\ lastTick = [done |-> FALSE, at |-> 0,
                   snaps |-> [id \in SourceIds |-> Unpolled],
                   preActive |-> [id \in SourceIds |-> FALSE],
                   failSince |-> [id \in SourceIds |-> -1],
                   decision |-> NoDecision,
                   telemetry |-> [id \in SourceIds |-> NoDemand(FALSE)]]
    /\ staleRun = 0
    /\ hw \in [pwm : {5}, enable : {2}, mode : ModeValues, has_enable : BOOLEAN]
    /\ files = [pidfile |-> 0, status |-> 0]
    /\ proc = [p \in Procs |-> ProcInit]
    /\ call = NoCall

SleepNext ==
    \/ \E sig \in Signals : Signal(1, sig)
    \/ Start(1, TRUE)
    \/ InstanceLockCtor(1)
    \/ PidfileGuardCtor(1, "ok")
    \/ SetupControlMode(1, TRUE, TRUE)
    \/ SetupPwm(1, TRUE, TRUE)
    \/ Startup(1, TRUE, TRUE)
    \/ LoopCheck(1)
    \/ EnforceMode(1, TRUE, TRUE)
    \/ Decide(1)
    \/ Readback(1, TRUE)
    \/ Actuate(1, TRUE)
    \/ PublishStatus(1, TRUE)
    \/ SleepTest(1)
    \/ SleepForReturns(1)
    \/ TimePasses
    \/ Return(1)
    \/ UnwindMgr(1)
    \/ UnwindStatus(1)
    \/ RestorePwm(1, TRUE, TRUE, TRUE)
    \/ RestoreControlMode(1, TRUE, TRUE)
    \/ UnwindPidfile(1)
    \/ UnwindLock(1)
    \/ Exit(1)

SpecSleep == SleepInit /\ [][SleepNext]_vars

\* The loop is blocked in sleep_for with the stop flag set by a signal.
StoppedInSleep == proc[1].pc = "sleep_for" /\ proc[1].g_stop = 1

\* C20 as stated: once a shutdown signal has been delivered during the
\* sleep, no time passes before the loop leaves the sleep: it waits neither
\* for the end of the running second nor for the rest of interval_sec.
C20_SignalWakesSleepAtOnce ==
    [][StoppedInSleep => call'.clock = call.clock]_vars

\* What holds of the sleep: after a signal no further second is begun, so the
\* loop leaves the sleep when the running second ends, at most one second
\* after the signal.
SleepLeftAtEndOfSecond ==
    /\ [](StoppedInSleep => call.wake_at - call.clock <= TicksPerSec)
    /\ [][(proc[1].pc = "sleep" /\ proc[1].g_stop = 1) => proc'[1].pc # "sleep_for"]_vars

\* A signal at the start of a sleep of two seconds: the loop is still asleep
\* a tick before the end of the first second.
StoppedSleepGoesOn ==
    /\ StoppedInSleep
    /\ cfg.interval_sec = 2
    /\ call.i = 0 /\ call.clock = call.wake_at - 1

\* The same sleep left after its first second.
SleepCutShort ==
    /\ proc[1].pc = "sleep" /\ proc[1].g_stop = 1
    /\ cfg.interval_sec = 2
    /\ call.fn = "sleep" /\ call.i = 1


\* ---------------------------------------------------------------------------
\* Shutdown: the daemon of SpecSleep under the scheduling of a running
\* process. A process that is alive takes its next step sooner or later and
\* the clock goes on while it is blocked in sleep_for; the signals and the
\* start of the process are inputs and happen or not. The steps that decide
\* and that ramp and write the PWM register are always possible at their
\* positions, so their fairness is stated on the positions.
\* ---------------------------------------------------------------------------
ProcessStep ==
    \/ InstanceLockCtor(1)
    \/ PidfileGuardCtor(1, "ok")
    \/ SetupControlMode(1, TRUE, TRUE)
    \/ SetupPwm(1, TRUE, TRUE)
    \/ Startup(1, TRUE, TRUE)
    \/ LoopCheck(1)
    \/ EnforceMode(1, TRUE, TRUE)
    \/ Readback(1, TRUE)
    \/ PublishStatus(1, TRUE)
    \/ SleepTest(1)
    \/ SleepForReturns(1)
    \/ Return(1)
    \/ UnwindMgr(1)
    \/ UnwindStatus(1)
    \/ RestorePwm(1, TRUE, TRUE, TRUE)
    \/ RestoreControlMode(1, TRUE, TRUE)
    \/ UnwindPidfile(1)
    \/ UnwindLock(1)
    \/ Exit(1)

SpecShutdown ==
    /\ SpecSleep
    /\ WF_vars(ProcessStep)
    /\ WF_vars(TimePasses)
    /\ []<>(proc[1].pc # "decide")
    /\ []<>(proc[1].pc # "actuate")

\* run_board_mode has left its loop: it returns or its locals are destroyed.
Stopping(p) == proc[p].pc = "return" \/ Unwinding(p)

StopObserved(p) == proc[p].pc = "loop" /\ proc[p].g_stop = 1

\* C21: every shutdown signal delivered while the control loop runs leads to
\* the exit of the process without further input; the loop starts no tick
\* once its condition has seen the flag, the lifecycle never goes back from
\* stopping to the loop, and the process that has exited has joined its
\* sampling units, released what it owned and restored the registers (exits
\* in which a restoring write failed twice are left aside).
C21_SignalLeadsToStopped ==
    /\ \A p \in Procs : (InLoop(p) /\ proc[p].g_stop = 1) ~> Exited(p)
    /\ [][\A p \in Procs :
            /\ StopObserved(p) => proc'[p].pc \in {"loop", "return"}
            /\ Stopping(p) => (Stopping(p)' \/ Exited(p)')]_vars
    /\ [](\A p \in Procs :
            (Exited(p) /\ proc[p].lastSig \in Signals /\ proc[p].control_armed) =>
                /\ ~proc[p].mgr_running
                /\ ~proc[p].lock_held
                /\ ~proc[p].restoreFailed /\ (cfg.control_mode = "user" => proc[p].armed)
                       => RegsRestored(p))

\* C21 witness: a process that was signalled after it had written the PWM
\* register has left the loop by return and is gone, its units joined and the
\* registers restored.
C21_Witness ==
    /\ SignalledExit(1)
    /\ "pwm" \in proc[1].wrote
    /\ ~proc[1].mgr_running
    /\ RegsRestored(1)

\* ---------------------------------------------------------------------------
\* Files and lock at exit
\* ---------------------------------------------------------------------------
\* Positions of run() before BoardOwnershipGuard is constructed.
OwnershipPcs == {"idle", "lock", "pidfile", "ctl_setup", "pwm_setup"}

\* BoardOwnershipGuard was constructed: the process got past the four member
\* constructors, none of them threw.
OwnershipAcquired(p) ==
    /\ proc[p].pc \notin OwnershipPcs
    /\ proc[p].failedAt \notin OwnershipPcs

\* C22: when a process that had constructed its ownership guard has exited,
\* by return or by an exception, the pidfile and the runtime-status file do
\* not exist and the instance lock is free for the next instance.
C22_OwnedFilesGoneOnExit ==
    \A p \in Procs :
        (Exited(p) /\ OwnershipAcquired(p)) =>
            /\ files.pidfile = 0
            /\ files.status = 0
            /\ ~proc[p].lock_held
            /\ \A q \in Procs \ {p} : flock_acquired(q)

\* C22 witness: a process that had written its pidfile and a status document
\* is gone after an exception in the loop.
C22_Witness ==
    /\ Exited(1) /\ OwnershipAcquired(1)
    /\ proc[1].thrown
    /\ {"pidfile", "status"} \subseteq proc[1].wrote

\* The same for the exits by return.
OwnedFilesGoneAfterSignal ==
    /\ SignalledExit(1) /\ OwnershipAcquired(1)
    /\ {"pidfile", "status"} \subseteq proc[1].wrote

\* A pidfile whose write failed is left behind, empty: the constructor of
\* PidfileGuard throws after the file was created and its destructor does
\* not run. This exit is before ownership.
EmptyPidfileLeft ==
    Exited(1) /\ proc[1].failedAt = "pidfile" /\ files.pidfile = -1

\* ---------------------------------------------------------------------------
\* The sampling units of SourceManager, step by step (temp_source.cpp): one
\* thread per source runs run_source_loop; sample() is a call that takes
\* time; store_sample writes the fields one after the other while it holds
\* the sample mutex; stop() clears running_, notifies and joins. `unit` holds
\* the threads, `src` the sources and `call` the manager and the snapshot the
\* control loop took last.
\* ---------------------------------------------------------------------------
\* Longest time a sample() call takes, in ticks: connect, lookup and invoke of
\* a remote source together may outlast several poll intervals.
MaxCallTicks == 5

UnitTemps == {71000}

UnitsConfigs == {board_config("user", 0, 255, 64, 1, 2)}

UnitInit ==
    [pc |-> "unstarted", next_deadline |-> 0, start_ts |-> 0,
     pending |-> NoSample,   \* the TempSample sample() or publish_failure built
     holds |-> FALSE,        \* the thread holds the sample mutex of its source
     woken |-> FALSE,        \* state_cv_ was notified while the thread waited
     \* history
     first_deadline |-> 0,   \* clock value at which the thread began
     threw |-> FALSE]        \* the last sample() ended by an exception

ManagerInit ==
    [fn |-> "manager", running |-> FALSE, started |-> FALSE,
     stop |-> "none", joined |-> {},
     snap |-> [id |-> "none", value |-> Unpolled]]  \* the copy the control loop holds

Running == call.running

UnitsInit ==
    /\ cfg \in UnitsConfigs
    /\ now = 0
    /\ src = [id \in SourceIds |-> Unpolled]
    /\ unit = [id \in SourceIds |-> UnitInit]
    /\ failSince = [id \in SourceIds |-> -1]
    /\ active = [id \in SourceIds |-> FALSE]
    /\ nextTickAt = 0
    /\ lastTick = [done |-> FALSE, at |-> 0,
                   snaps |-> [id \in SourceIds |-> Unpolled],
                   preActive |-> [id \in SourceIds |-> FALSE],
                   failSince |-> [id \in SourceIds |-> -1],
                   decision |-> NoDecision,
                   telemetry |-> [id \in SourceIds |-> NoDemand(FALSE)]]
    /\ staleRun = 0
    /\ DaemonIdle
    /\ call = ManagerInit

unitFrame == <<cfg, failSince, active, nextTickAt, lastTick, staleRun, daemonVars>>

\* SourceManager::start: running_ is set and one thread per source begins
\* with its first deadline at the current clock value.
ManagerStart ==
    /\ ~call.started
    /\ call' = [call EXCEPT !.running = TRUE, !.started = TRUE]
    /\ unit' = [id \in SourceIds |->
                   [unit[id] EXCEPT !.pc = "check", !.next_deadline = now,
                                    !.first_deadline = now]]
    /\ UNCHANGED <<now, src, unitFrame>>

\* Faulty variant: the sample mutex is taken before the call and held across
\* it.
UnitCheck_locks_first(id) ==
    /\ unit[id].pc = "check"
    /\ unit' = [unit EXCEPT ![id] =
                   IF ~Running THEN [@ EXCEPT !.pc = "done"]
                   ELSE [@ EXCEPT !.pc = "call", !.start_ts = now, !.holds = TRUE]]
    /\ UNCHANGED <<now, src, call, unitFrame>>

\* Top of the loop of run_source_loop: running_ is tested under state_mutex_;
\* the thread ends, or sample() begins and stamps the sample.
UnitCheck(id) ==
    /\ unit[id].pc = "check"
    /\ unit' = [unit EXCEPT ![id] =
                   IF ~Running THEN [@ EXCEPT !.pc = "done"]
                   ELSE [@ EXCEPT !.pc = "call", !.start_ts = now]]
    /\ UNCHANGED <<now, src, call, unitFrame>>

\* How a sample() call can end: a reading, a failure it stores itself, or an
\* exception (the remote source builds strings and libubus requests).
SampleOutcomes(id) ==
    IF cfg.sources[id].type = "sysfs" THEN {"ok", "fail"} ELSE {"ok", "fail", "throw"}

\* Longest time sample() takes: the read of a sysfs file is immediate.
CallTicks(id) == IF cfg.sources[id].type = "sysfs" THEN 0 ELSE MaxCallTicks

\* The sample a call leaves to be stored: a reading or a failure stamped at
\* the start of sample(), or the failure publish_failure stamps when it
\* converts an exception.
SampleBuilt(id, outcome, temp) ==
    IF outcome = "ok" THEN TempSample(TRUE, temp, unit[id].start_ts)
    ELSE IF outcome = "fail" THEN TempSample(FALSE, 0, unit[id].start_ts)
    ELSE TempSample(FALSE, 0, now)

\* Faulty variant: an exception ends the thread.
SampleReturns_throw_ends_unit(id, outcome, temp) ==
    /\ unit[id].pc = "call"
    /\ unit' = [unit EXCEPT ![id] =
                   IF outcome = "throw" THEN [@ EXCEPT !.pc = "done", !.threw = TRUE]
                   ELSE [@ EXCEPT !.pc = "store", !.threw = FALSE,
                                  !.pending = <<SampleBuilt(id, outcome, temp)>>]]
    /\ UNCHANGED <<now, src, call, unitFrame>>

\* The read or the remote call is over: sample() has its TempSample, or threw
\* and the catch clauses of run_source_loop call publish_failure.
SampleReturns(id, outcome, temp) ==
    /\ unit[id].pc = "call"
    /\ unit' = [unit EXCEPT ![id].pc = "store",
                            ![id].threw = (outcome = "throw"),
                            ![id].pending = <<SampleBuilt(id, outcome, temp)>>]
    /\ UNCHANGED <<now, src, call, unitFrame>>

\* store_sample, first half: the mutex is taken and last_sample_ assigned.
StoreBegin(id) ==
    /\ unit[id].pc = "store"
    /\ ~unit[id].holds
    /\ src' = [src EXCEPT ![id].last_sample = unit[id].pending]
    /\ unit' = [unit EXCEPT ![id].pc = "storing", ![id].holds = TRUE]
    /\ UNCHANGED <<now, call, unitFrame>>

\* store_sample, second half: last_good_sample_ follows a successful sample,
\* has_polled_ is set and the mutex released; then the drift correction of
\* run_source_loop computes the next deadline.
StoreEnd(id) ==
    /\ unit[id].pc = "storing"
    /\ src' = [src EXCEPT ![id] = store_sample(@, unit[id].pending[1])]
    /\ unit' = [unit EXCEPT ![id].pc = "deadline", ![id].holds = FALSE,
                            ![id].pending = NoSample,
                            ![id].next_deadline =
                                next_deadline_after(@, PollTicks(id), now)]
    /\ UNCHANGED <<now, call, unitFrame>>

\* unique_lock on state_mutex_: the thread ends when running_ is clear, else
\* it waits on state_cv_ until its deadline.
UnitWait(id) ==
    /\ unit[id].pc = "deadline"
    /\ unit' = [unit EXCEPT ![id].pc = IF Running THEN "wait" ELSE "done",
                            ![id].woken = FALSE]
    /\ UNCHANGED <<now, src, call, unitFrame>>

\* wait_until returns: the deadline has come, or the thread was notified and
\* running_ is clear.
wake_due(id) ==
    \/ unit[id].next_deadline <= now
    \/ unit[id].woken /\ ~Running

UnitWake(id) ==
    /\ unit[id].pc = "wait"
    /\ wake_due(id)
    /\ unit' = [unit EXCEPT ![id].pc = IF Running THEN "check" ELSE "done",
                            ![id].woken = FALSE]
    /\ UNCHANGED <<now, src, call, unitFrame>>

\* Faulty variant: running_ is cleared, nobody is notified.
ManagerStop_no_notify ==
    /\ Running
    /\ call' = [call EXCEPT !.running = FALSE, !.stop = "joining"]
    /\ UNCHANGED <<now, src, unit, unitFrame>>

\* SourceManager::stop, up to the joins: running_ is cleared under
\* state_mutex_ and state_cv_.notify_all() wakes the waiting threads.
ManagerStop ==
    /\ Running
    /\ call' = [call EXCEPT !.running = FALSE, !.stop = "joining"]
    /\ unit' = [id \in SourceIds |->
                   IF unit[id].pc = "wait" THEN [unit[id] EXCEPT !.woken = TRUE]
                   ELSE unit[id]]
    /\ UNCHANGED <<now, src, unitFrame>>

\* The joins of stop(), in the order of runtimes_: join() returns when the
\* thread has ended.
Join(id) ==
    /\ call.stop = "joining"
    /\ id \notin call.joined
    /\ \A i \in 1..Len(SourceOrder) :
          SourceOrder[i] = id => \A j \in 1..(i - 1) : SourceOrder[j] \in call.joined
    /\ unit[id].pc = "done"
    /\ call' = [call EXCEPT !.joined = @ \cup {id}]
    /\ UNCHANGED <<now, src, unit, unitFrame>>

StopReturns ==
    /\ call.stop = "joining"
    /\ call.joined = SourceIds
    /\ call' = [call EXCEPT !.stop = "returned"]
    /\ UNCHANGED <<now, src, unit, unitFrame>>

\* Faulty variant: the copy is taken without the mutex.
SnapshotReady_unlocked(id) == TRUE

\* snapshot() takes the sample mutex: it waits while a store holds it.
SnapshotReady(id) == ~unit[id].holds

NoSnapshot == [id |-> "none", value |-> Unpolled]

\* The control loop takes the snapshot of a source.
Snapshot(id) ==
    /\ call.started
    /\ call.stop = "none"
    /\ call.snap = NoSnapshot
    /\ SnapshotReady(id)
    /\ call' = [call EXCEPT !.snap = [id |-> id, value |-> snapshot(src[id])]]
    /\ UNCHANGED <<now, src, unit, unitFrame>>

\* The control loop has used the snapshot: the copy ceases to exist.
SnapshotUsed ==
    /\ call.snap # NoSnapshot
    /\ call' = [call EXCEPT !.snap = NoSnapshot]
    /\ UNCHANGED <<now, src, unit, unitFrame>>

\* A thread that can take its next step without waiting for the clock.
UnitRunnable(id) ==
    \/ unit[id].pc \in {"check", "store", "storing", "deadline"}
    \/ unit[id].pc = "wait" /\ wake_due(id)
    \/ unit[id].pc = "call" /\ now - unit[id].start_ts >= CallTicks(id)

\* The clock advances when no thread can run and the control loop holds no
\* snapshot.
UnitsAdvance ==
    /\ now < MaxTime
    /\ call.started
    /\ call.snap = NoSnapshot
    /\ \A id \in SourceIds : ~UnitRunnable(id)
    /\ now' = now + 1
    /\ UNCHANGED <<src, unit, call, unitFrame>>

UnitsNext ==
    \/ ManagerStart
    \/ \E id \in SourceIds : UnitCheck(id)
    \/ \E id \in SourceIds : \E outcome \in SampleOutcomes(id), temp \in UnitTemps :
          SampleReturns(id, outcome, temp)
    \/ \E id \in SourceIds : StoreBegin(id)
    \/ \E id \in SourceIds : StoreEnd(id)
    \/ \E id \in SourceIds : UnitWait(id)
    \/ \E id \in SourceIds : UnitWake(id)
    \/ ManagerStop
    \/ \E id \in SourceIds : Join(id)
    \/ StopReturns
    \/ \E id \in SourceIds : Snapshot(id)
    \/ SnapshotUsed
    \/ UnitsAdvance

SpecUnits == UnitsInit /\ [][UnitsNext]_vars

\* ---------------------------------------------------------------------------
\* Properties of the sampling units
\* ---------------------------------------------------------------------------
InCall(id) == unit[id].pc = "call"

\* C23: the sample mutex of a source is held only between the two halves of
\* store_sample, never while sample() reads or calls; so while a call is in
\* flight the snapshot of that source can be taken, and every other running
\* unit that waits has its deadline still ahead: none is kept waiting past
\* it.
C23_CallHoldsNoLock ==
    \A id \in SourceIds :
        /\ unit[id].holds => unit[id].pc = "storing"
        /\ InCall(id) =>
              /\ SnapshotReady(id)
              /\ \A other \in SourceIds \ {id} :
                    (Running /\ unit[other].pc = "wait") => unit[other].next_deadline >= now

\* C23 witness: the remote call has been hanging for longer than two poll
\* intervals; the other source stored a sample that began after the call
\* did, and the control loop holds a snapshot of the hanging source.
C23_Witness ==
    /\ InCall("modem")
    /\ now - unit["modem"].start_ts > 2 * PollTicks("modem")
    /\ src["soc"].last_sample # NoSample
    /\ src["soc"].last_sample[1].sample_ts > unit["modem"].start_ts + PollTicks("soc")
    /\ call.snap.id = "modem"

\* What a completed store_sample leaves in the three fields.
SnapshotConsistent(v) ==
    /\ v.has_polled <=> v.last_sample # NoSample
    /\ v.last_good_sample # NoSample => v.last_good_sample[1].ok
    /\ (v.last_sample # NoSample /\ v.last_sample[1].ok) =>
           v.last_good_sample = v.last_sample
    /\ v.last_good_sample # NoSample => v.last_sample # NoSample

\* C24: the snapshot the control loop holds is a copy of the three fields as
\* a completed store left them: last_good_sample, when present, is a
\* successful sample, and a successful last_sample is also last_good_sample.
C24_SnapshotIsOneStore ==
    call.snap # NoSnapshot => SnapshotConsistent(call.snap.value)

\* C24 witness: the control loop holds a snapshot with a failed last sample
\* and an earlier good one, taken while the unit of that source waits to
\* store its next sample and the other unit is in the middle of a store.
C24_Witness ==
    /\ call.snap.id = "modem"
    /\ call.snap.value.last_good_sample # NoSample
    /\ ~call.snap.value.last_sample[1].ok
    /\ unit["modem"].pc = "store"
    /\ unit["soc"].holds

\* A failed sample is about to be stored or half stored.
FailedPending(id) ==
    /\ unit[id].pc \in {"store", "storing"}
    /\ ~unit[id].pending[1].ok

\* C25: while a failed sample of a source is stored, whether sample() built
\* it or publish_failure did after an exception, no step changes
\* last_good_sample of that source; when the store is complete the failed
\* sample is last_sample and has_polled is set.
C25_FailureKeepsLastGood ==
    [][\A id \in SourceIds :
          FailedPending(id) =>
              /\ src'[id].last_good_sample = src[id].last_good_sample
              /\ unit'[id].pc = "deadline" =>
                    /\ src'[id].last_sample = unit[id].pending
                    /\ src'[id].has_polled]_vars

\* C25 witness: the failure made of an exception has been stored over an
\* earlier good sample, which is still last_good_sample.
C25_Witness ==
    /\ unit["modem"].pc = "deadline"
    /\ unit["modem"].threw
    /\ src["modem"].has_polled
    /\ ~src["modem"].last_sample[1].ok
    /\ src["modem"].last_sample[1].sample_ts = now
    /\ src["modem"].last_good_sample # NoSample
    /\ src["modem"].last_good_sample[1].sample_ts < unit["modem"].start_ts

\* ---------------------------------------------------------------------------
\* The sampling units under the scheduling of threads: a thread that can take
\* a step takes it sooner or later, a call in flight returns, join and stop
\* return when they can, and the clock goes on however often the control
\* loop takes a snapshot. Starting, stopping and the snapshots of the
\* control loop are inputs.
\* ---------------------------------------------------------------------------
UnitStep(id) ==
    \/ UnitCheck(id)
    \/ \E outcome \in SampleOutcomes(id), temp \in UnitTemps : SampleReturns(id, outcome, temp)
    \/ StoreBegin(id)
    \/ StoreEnd(id)
    \/ UnitWait(id)
    \/ UnitWake(id)

SpecUnitsLive ==
    /\ SpecUnits
    /\ \A id \in SourceIds : WF_vars(UnitStep(id))
    /\ WF_vars(\E id \in SourceIds : Join(id))
    /\ WF_vars(StopReturns)
    /\ WF_vars(SnapshotUsed)
    /\ SF_vars(UnitsAdvance)

\* A sample() call of a running unit has ended in failure or by an exception.
SampleFailed(id) == FailedPending(id) /\ unit[id].pc = "store"

\* C26: a unit ends only when running_ is clear; a call that fails or throws
\* leaves the unit with a failed TempSample to store, and from there the unit
\* comes to its next sample() call unless the manager is stopped first or
\* the clock reaches the end of the explored time; a running unit that waits
\* is never past its deadline.
C26_FailureNeverEndsUnit ==
    /\ [](\A id \in SourceIds :
            /\ unit[id].pc = "done" => ~Running
            /\ (Running /\ unit[id].pc = "wait") => unit[id].next_deadline >= now
            /\ unit[id].threw /\ unit[id].pc = "store" => ~unit[id].pending[1].ok)
    /\ \A id \in SourceIds :
          SampleFailed(id) ~> (InCall(id) \/ ~Running \/ now = MaxTime)

\* C26 witness: the unit is in its next sample() call after a call that
\* threw, whose failure is the last sample of the source.
C26_Witness ==
    /\ InCall("modem")
    /\ Running
    /\ unit["modem"].threw
    /\ src["modem"].last_sample # NoSample
    /\ ~src["modem"].last_sample[1].ok
    /\ unit["modem"].start_ts > src["modem"].last_sample[1].sample_ts

\* The deadline of a unit is on the grid of its first deadline.
OnCadenceGrid(id) ==
    (unit[id].next_deadline - unit[id].first_deadline) % PollTicks(id) = 0

\* The sample just stored took at least n poll intervals.
Overran(id, n) ==
    /\ unit[id].pc = "deadline"
    /\ now - unit[id].start_ts >= n * PollTicks(id)

\* C27: the deadline computed after a sample, however long the sample took,
\* is later than the clock value at which it is computed, not later than one
\* interval from it, and on the grid of the first deadline; a sample() call
\* never begins before the deadline the unit had at that moment, so no two
\* calls follow each other without a wait.
C27_OverrunSkipsToGrid ==
    \A id \in SourceIds :
        /\ OnCadenceGrid(id)
        /\ unit[id].pc = "deadline" =>
              /\ unit[id].next_deadline > now
              /\ unit[id].next_deadline <= now + PollTicks(id)
        /\ unit[id].pc \in {"call", "store", "storing"} =>
              unit[id].start_ts >= unit[id].next_deadline

\* C27 witness: a sample that took two poll intervals or more has been
\* stored and the next deadline is ahead, two or more deadlines skipped.
C27_Witness ==
    /\ Overran("modem", 2)
    /\ unit["modem"].next_deadline > now
    /\ unit["modem"].next_deadline - unit["modem"].start_ts >= 3 * PollTicks("modem")

Stopped == call.stop # "none"

\* C28: stop() returns, and only after every unit has ended and been joined.
\* Once running_ is clear the clock does not advance while a unit still
\* waits for its deadline, no sample() call begins, and a call in flight ends
\* as any other, with a sample to store.
C28_StopJoinsEveryUnit ==
    /\ [](call.stop = "returned" =>
             \A id \in SourceIds : unit[id].pc = "done" /\ id \in call.joined)
    /\ [][\A id \in SourceIds :
            /\ (~Running /\ Stopped /\ unit[id].pc = "wait") => now' = now
            /\ (~Running /\ Stopped /\ ~InCall(id)) => ~InCall(id)'
            /\ (InCall(id) /\ ~InCall(id)') => unit'[id].pc = "store"]_vars
    /\ (call.stop = "joining") ~> (call.stop = "returned")

\* C28 witness: stop() has joined the unit that was waiting, before its
\* deadline came, and is blocked in the join of the unit whose call is still
\* in flight.
C28_Witness ==
    /\ call.stop = "joining"
    /\ call.joined = {"soc"}
    /\ now < unit["soc"].next_deadline
    /\ InCall("modem")

\* stop() has returned after a call that was in flight when it began: the
\* sample of that call was stored.
StopWaitedForCall ==
    /\ call.stop = "returned"
    /\ src["modem"].last_sample # NoSample
    /\ unit["modem"].next_deadline > unit["soc"].next_deadline + PollTicks("modem")

\* ---------------------------------------------------------------------------
\* Riding through a failed sample on the last-known-good one
\* ---------------------------------------------------------------------------
\* The source went into the last tick with a failed latest sample and a
\* last-known-good sample taken at most ttl_sec before the tick.
TickRidesThrough(id) ==
    /\ lastTick.snaps[id].last_sample # NoSample
    /\ ~lastTick.snaps[id].last_sample[1].ok
    /\ lastTick.snaps[id].last_good_sample # NoSample
    /\ lastTick.at - lastTick.snaps[id].last_good_sample[1].sample_ts
          <= cfg.sources[id].ttl_sec * TicksPerSec

\* C29: a source whose latest sample failed and whose last-known-good sample
\* is at most ttl_sec old contributes the demand of the last-known-good
\* temperature, flagged using_last_good; it counts as valid and is not timed
\* out.
C29_LastGoodWithinTtlIsUsed ==
    lastTick.done =>
        \A id \in SourceIds :
            TickRidesThrough(id) =>
                LET good == lastTick.snaps[id].last_good_sample[1]
                    d == demand_from_source(cfg, cfg.sources[id], good.temp_mC,
                                            lastTick.preActive[id])
                IN  /\ lastTick.telemetry[id].using_last_good
                    /\ lastTick.telemetry[id].valid
                    /\ ~lastTick.telemetry[id].timeout
                    /\ lastTick.telemetry[id].demand_pwm = d.demand
                    /\ lastTick.telemetry[id].critical = d.critical
                    /\ active[id] = d.active
                    /\ lastTick.decision.any_valid

\* C29 witness: the only source with a usable sample rides through a failure
\* on a last-known-good temperature between its thresholds; the other source
\* never produced a sample, and the target is neither bound of the range.
C29_Witness ==
    /\ lastTick.done
    /\ TickRidesThrough("modem")
    /\ lastTick.snaps["modem"].last_good_sample[1].temp_mC = 71000
    /\ lastTick.at - lastTick.snaps["modem"].last_good_sample[1].sample_ts
          = cfg.sources["modem"].ttl_sec * TicksPerSec
    /\ lastTick.snaps["soc"] = Unpolled
    /\ lastTick.telemetry["modem"].demand_pwm \notin {cfg.pwm_min, cfg.pwm_max}
    /\ lastTick.decision.target_pwm = lastTick.telemetry["modem"].demand_pwm

\* ---------------------------------------------------------------------------
\* The runtime status file and a reader (write_runtime_status_file,
\* runtime_status.cpp): the document goes through an ofstream into
\* "<path>.tmp", which is renamed over the path. A file is a directory entry
\* that names an inode; a reader keeps the inode it opened. `files` holds the
\* two entries and the inodes, `call` the writer's position and the reader.
\* ---------------------------------------------------------------------------
\* Documents the daemon publishes before it exits.
MaxDocs == 3

\* The document of tick n, in the two pieces a reader gets it in.
Document(n) == <<n, n>>

StatusDocuments == {Document(n) : n \in 1..(MaxDocs + 1)}

StatusInit ==
    /\ cfg \in UnitsConfigs
    /\ now = 0
    /\ src = [id \in SourceIds |-> Unpolled]
    /\ unit = [id \in SourceIds |-> [pc |-> "wait", next_deadline |-> 0, start_ts |-> 0]]
    /\ failSince = [id \in SourceIds |-> -1]
    /\ active = [id \in SourceIds |-> FALSE]
    /\ nextTickAt = 0
    /\ lastTick = [done |-> FALSE, at |-> 0,
                   snaps |-> [id \in SourceIds |-> Unpolled],
                   preActive |-> [id \in SourceIds |-> FALSE],
                   failSince |-> [id \in SourceIds |-> -1],
                   decision |-> NoDecision,
                   telemetry |-> [id \in SourceIds |-> NoDemand(FALSE)]]
    /\ staleRun = 0
    /\ hw = [pwm |-> 0, enable |-> 2, mode |-> "enabled", has_enable |-> TRUE]
    /\ proc = [p \in Procs |-> ProcInit]
    /\ files = [pidfile |-> 1, status |-> 0, tmp |-> 0, inodes |-> <<>>]
    /\ call = [fn |-> "status", pc |-> "idle", tick |-> 0, buffered |-> FALSE,
               reader |-> [pc |-> "closed", inode |-> 0, got |-> <<>>],
               \* history: the inodes whose flush at close failed
               cut |-> {}]

statusFrame == <<policyVars, hw, proc>>

\* std::ofstream out(tmp): the entry is created with a new empty inode, or
\* the inode a failed call left under the name is truncated; when the open
\* fails the function returns false.
OpenTmp(ok) ==
    /\ call.pc = "idle"
    /\ call.tick < MaxDocs
    /\ IF ~ok
       THEN /\ call' = [call EXCEPT !.tick = @ + 1]
            /\ files' = files
       ELSE /\ call' = [call EXCEPT !.tick = @ + 1, !.pc = "stream", !.buffered = FALSE,
                                    !.cut = @ \ {files.tmp}]
            /\ files' = IF files.tmp = 0
                        THEN [files EXCEPT !.inodes = Append(@, <<>>),
                                           !.tmp = Len(files.inodes) + 1]
                        ELSE [files EXCEPT !.inodes[files.tmp] = <<>>]
    /\ UNCHANGED statusFrame

\* out << payload << '\n' and the test of out.good(): the stream keeps the
\* text in its buffer, or writes it through, or a write fails and the
\* function returns false with the temporary file left as it is.
StreamWrite(outcome) ==
    /\ call.pc = "stream"
    /\ outcome \in {"buffered", "direct", "error"}
    /\ call' = [call EXCEPT !.buffered = (outcome = "buffered"),
                            !.pc = IF outcome = "error" THEN "idle" ELSE "close"]
    /\ files' = IF outcome = "buffered" THEN files
                ELSE [files EXCEPT !.inodes[files.tmp] =
                         IF outcome = "direct" THEN Document(call.tick)
                         ELSE <<call.tick>>]
    /\ UNCHANGED statusFrame

\* The closing brace: the destructor of the ofstream flushes the buffer and
\* closes the file; a failure of that write is not reported to anyone.
CloseStream(written) ==
    /\ call.pc = "close"
    /\ written \in 0..2
    /\ ~call.buffered => written = 2
    /\ call' = [call EXCEPT !.pc = "rename", !.buffered = FALSE,
                            !.cut = IF written < 2 THEN @ \cup {files.tmp} ELSE @]
    /\ files' = IF call.buffered
                THEN [files EXCEPT !.inodes[files.tmp] =
                         SubSeq(Document(call.tick), 1, written)]
                ELSE files
    /\ UNCHANGED statusFrame

\* Faulty variant: the document is copied into the inode of the status path,
\* the first piece at once.
RenameTmp_copies(ok) ==
    /\ call.pc = "rename"
    /\ files' = IF ~ok THEN files
                ELSE IF files.status # 0 /\ Len(files.inodes[files.status]) = 2
                        /\ Len(files.inodes[files.tmp]) = 2
                THEN [files EXCEPT !.inodes[files.status] =
                         <<files.inodes[files.tmp][1], @[2]>>]
                ELSE [files EXCEPT !.status = files.tmp, !.tmp = 0]
    /\ call' = [call EXCEPT !.pc = "idle"]
    /\ UNCHANGED statusFrame

\* std::rename(tmp, path): the status entry names the inode of the temporary
\* file and the temporary entry is gone; nothing changes when it fails.
RenameTmp(ok) ==
    /\ call.pc = "rename"
    /\ files' = IF ok THEN [files EXCEPT !.status = files.tmp, !.tmp = 0] ELSE files
    /\ call' = [call EXCEPT !.pc = "idle"]
    /\ UNCHANGED statusFrame

\* ~RuntimeStatusGuard when the daemon exits: the status entry is unlinked.
UnlinkStatus ==
    /\ call.pc = "idle"
    /\ call.tick > 0
    /\ files' = [files EXCEPT !.status = 0]
    /\ call' = [call EXCEPT !.pc = "gone"]
    /\ UNCHANGED statusFrame

\* A reader opens the status path: it gets the inode the entry names at that
\* moment; with no entry there is no file to read.
ReaderOpen ==
    /\ call.reader.pc = "closed"
    /\ files.status # 0
    /\ call' = [call EXCEPT !.reader = [pc |-> "reading", inode |-> files.status,
                                        got |-> <<>>]]
    /\ UNCHANGED <<files, statusFrame>>

\* The reader reads the next piece of its inode, or reaches the end.
ReaderRead ==
    /\ call.reader.pc = "reading"
    /\ LET content == files.inodes[call.reader.inode]
           pos == Len(call.reader.got) + 1
       IN  call' = IF pos <= Len(content)
                   THEN [call EXCEPT !.reader.got = Append(@, content[pos])]
                   ELSE [call EXCEPT !.reader.pc = "done"]
    /\ UNCHANGED <<files, statusFrame>>

ReaderClose ==
    /\ call.reader.pc = "done"
    /\ call' = [call EXCEPT !.reader = [pc |-> "closed", inode |-> 0, got |-> <<>>]]
    /\ UNCHANGED <<files, statusFrame>>

StatusNext ==
    \/ \E ok \in BOOLEAN : OpenTmp(ok)
    \/ \E outcome \in {"buffered", "direct", "error"} : StreamWrite(outcome)
    \/ \E written \in 0..2 : CloseStream(written)
    \/ \E ok \in BOOLEAN : RenameTmp(ok)
    \/ UnlinkStatus
    \/ ReaderOpen
    \/ ReaderRead
    \/ ReaderClose

SpecStatus == StatusInit /\ [][StatusNext]_vars

\* What a reader that reached the end of the file has observed.
ReaderDone == call.fn = "status" /\ call.reader.pc = "done"

CutDocumentRead ==
    ReaderDone /\ call.reader.got \notin StatusDocuments

BoundsConfigs ==
    { board_config("user", lo, 11 - lo, fs, 1, 2) : lo \in {3, 8}, fs \in {0, 5, 10} }

\* Values found in the PWM register: below, inside and above the bounds.
BoundsPwm == {0, 5, 10}

\* Source states seen by the decision: nothing polled, a failure, a warm and
\* a critical sample just taken, a sample MaxAgeTicks old.
BoundsSnapshots(tnow) ==
    { Unpolled,
      store_sample(Unpolled, TempSample(FALSE, 0, tnow)),
      store_sample(Unpolled, TempSample(TRUE, 71000, tnow)),
      store_sample(Unpolled, TempSample(TRUE, 90000, tnow)),
      store_sample(Unpolled, TempSample(TRUE, 71000, tnow - MaxAgeTicks)) }

BoundsInit ==
    /\ cfg \in BoundsConfigs
    /\ now = MaxAgeTicks
    /\ src \in [SourceIds -> BoundsSnapshots(MaxAgeTicks)]
    /\ unit = [id \in SourceIds |-> [pc |-> "wait", next_deadline |-> 0, start_ts |-> 0]]
    /\ failSince = [id \in SourceIds |-> -1]
    /\ active = [id \in SourceIds |-> FALSE]
    /\ nextTickAt = MaxAgeTicks
    /\ lastTick = [done |-> FALSE, at |-> 0,
                   snaps |-> [id \in SourceIds |-> Unpolled],
                   preActive |-> [id \in SourceIds |-> FALSE],
                   failSince |-> [id \in SourceIds |-> -1],
                   decision |-> NoDecision,
                   telemetry |-> [id \in SourceIds |-> NoDemand(FALSE)]]
    /\ staleRun = 0
    /\ DaemonIdle
    /\ \E pwm \in BoundsPwm :
           call = [fn |-> "ramp_start", target |-> pwm, input |-> pwm, next |-> pwm,
                   acc |-> NoCredit, dir |-> "none", n |-> 0, from |-> pwm,
                   limited |-> FALSE]

\* The read-back of a later tick finds a value another actor wrote.
ReadbackFinds(pwm) ==
    /\ call.fn = "apply_ramp"
    /\ pwm # call.next
    /\ call' = [call EXCEPT !.fn = "readback", !.next = pwm]
    /\ UNCHANGED <<cfg, active, quietVars>>

BoundsNext ==
    \/ Tick
    \/ RampToTarget
    \/ \E pwm \in BoundsPwm : ReadbackFinds(pwm)

SpecBounds == BoundsInit /\ [][BoundsNext]_vars

InBounds(c, pwm) ==
    /\ Min2(c.pwm_min, c.pwm_max) <= pwm
    /\ pwm <= Max2(c.pwm_min, c.pwm_max)

\* C34: the target of every decision and every value a ramp step returns for
\* writing lie within the PWM bounds, whatever the fail-safe level and the
\* value read back from the register.
C34_TargetAndWritesWithinBounds ==
    /\ lastTick.done => InBounds(cfg, lastTick.decision.target_pwm)
    /\ call.fn = "apply_ramp" => InBounds(cfg, call.next)

\* C34 witness: a source has timed out, the fail-safe level and the value
\* read back are both outside the bounds, and the ramp step returned a value
\* to write.
C34_Witness ==
    /\ lastTick.done
    /\ lastTick.decision.any_timeout
    /\ ~InBounds(cfg, cfg.failsafe_pwm)
    /\ call.fn = "apply_ramp"
    /\ ~InBounds(cfg, call.input)
    /\ pwm_write_needed(call.next, call.input)

\* ---------------------------------------------------------------------------
\* Properties of the duplicate-resource check
\* ---------------------------------------------------------------------------
\* The resource a source of a document refers to: the normalized path of a
\* sysfs source, the object, method, key and canonical arguments of a ubus
\* source.
ResourceOf(s) ==
    LET type == to_lower_ascii(trim(s.type))
        args == trim(s.args_json)
    IN  IF type = "sysfs" THEN <<"sysfs", canonicalize_path_text(trim(s.path))>>
        ELSE <<"ubus", trim(s.object), trim(s.method), trim(s.key),
               canonicalize_json_object_text(IF args = "" THEN "{}" ELSE args)>>

\* Two sources of the document with different ids refer to one resource.
SharedResource(doc) ==
    \E i, j \in 1..Len(doc.sources) :
        /\ i < j
        /\ trim(doc.sources[i].id) # trim(doc.sources[j].id)
        /\ ResourceOf(doc.sources[i]) = ResourceOf(doc.sources[j])

\* C33: a document in which two sources with different ids refer to the same
\* resource is rejected, and no accepted configuration holds two sources of
\* one resource.
C33_SharedResourceRejected ==
    Validated =>
        /\ SharedResource(call.doc) => ~call.out.ok
        /\ call.out.ok => ~SharedResource(call.out.cfg)

\* C33 witness: the third source of a document names the sysfs path of the
\* first in another spelling, the second is a different resource, and the
\* document was rejected for the duplicate.
C33_Witness ==
    /\ Validated
    /\ Len(call.doc.sources) = 3
    /\ call.doc.sources[1].path # call.doc.sources[3].path
    /\ ResourceOf(call.doc.sources[1]) = ResourceOf(call.doc.sources[3])
    /\ ResourceOf(call.doc.sources[1]) # ResourceOf(call.doc.sources[2])
    /\ ~call.out.ok
    /\ call.out.error = "duplicate source resource"

\* Sources that differ in one part of the resource only are accepted.
DistinctResourcesAccepted ==
    /\ Validated
    /\ Len(call.doc.sources) = 2
    /\ call.doc.sources[1].object = call.doc.sources[2].object
    /\ call.doc.sources[1].object # ""
    /\ call.out.ok

\* ---------------------------------------------------------------------------
\* The configuration text (board_config.cpp): a text is a sequence of lines,
\* a line a sequence of characters. The fixed words of the format (keys,
\* field names, type and mode names), which hold no character the parser
\* treats specially, stand as one element each.
\* ---------------------------------------------------------------------------
\* std::isspace
is_space(ch) == ch = " "

\* The least element of a non-empty set of positions.
first_of(S) == CHOOSE i \in S : \A j \in S : i <= j

last_of(S) == CHOOSE i \in S : \A j \in S : j <= i

\* trim on a line or a part of one: without the white space at its ends.
trim_text(s) ==
    LET kept == {i \in 1..Len(s) : ~is_space(s[i])}
    IN  IF kept = {} THEN <<>> ELSE SubSeq(s, first_of(kept), last_of(kept))

trim_front(s) ==
    LET kept == {i \in 1..Len(s) : ~is_space(s[i])}
    IN  IF kept = {} THEN <<>> ELSE SubSeq(s, first_of(kept), Len(s))

\* The scanner shared by strip_inline_comment and parse_csv_pairs: the state
\* after one character (quotes, escapes, depth of braces and brackets).
ScanStart == [in_quote |-> FALSE, escape |-> FALSE, quote |-> "", brace |-> 0, bracket |-> 0]

scan_char(st, ch) ==
    IF st.in_quote
    THEN IF st.escape THEN [st EXCEPT !.escape = FALSE]
         ELSE IF ch = "\\" THEN [st EXCEPT !.escape = TRUE]
         ELSE IF ch = st.quote THEN [st EXCEPT !.in_quote = FALSE]
         ELSE st
    ELSE IF ch = "\"" \/ ch = "'" THEN [st EXCEPT !.in_quote = TRUE, !.quote = ch]
    ELSE IF ch = "{" THEN [st EXCEPT !.brace = @ + 1]
    ELSE IF ch = "}" /\ st.brace > 0 THEN [st EXCEPT !.brace = @ - 1]
    ELSE IF ch = "[" THEN [st EXCEPT !.bracket = @ + 1]
    ELSE IF ch = "]" /\ st.bracket > 0 THEN [st EXCEPT !.bracket = @ - 1]
    ELSE st

\* The states of the scanner after each character of s[lo..hi], entered in
\* state st.
RECURSIVE scan_states(_, _, _, _)
scan_states(s, lo, hi, st) ==
    IF lo > hi THEN <<>>
    ELSE IF lo = hi THEN <<scan_char(st, s[lo])>>
    ELSE LET mid == (lo + hi) \div 2
             left == scan_states(s, lo, mid, st)
         IN  left \o scan_states(s, mid + 1, hi, left[Len(left)])

\* The positions of ch in s that lie outside quotes, braces and brackets.
open_positions(s, ch) ==
    LET after == scan_states(s, 1, Len(s), ScanStart)
        before == <<ScanStart>> \o after
    IN  {i \in 1..Len(s) : /\ s[i] = ch
                           /\ ~before[i].in_quote
                           /\ after[i].brace = 0 /\ after[i].bracket = 0}

\* strip_inline_comment: the line up to the first '#' outside quotes, braces
\* and brackets.
strip_inline_comment(line) ==
    LET marks == open_positions(line, "#")
    IN  IF marks = {} THEN line ELSE SubSeq(line, 1, first_of(marks) - 1)

\* The position of the first ch in s, 0 when there is none (std::string::find).
find(s, ch) ==
    LET at == {i \in 1..Len(s) : s[i] = ch}
    IN  IF at = {} THEN 0 ELSE first_of(at)

\* Decimal digits.
DigitChars == <<"0", "1", "2", "3", "4", "5", "6", "7", "8", "9">>

digit_value(ch) == find(DigitChars, ch) - 1

\* operator<< of an int.
RECURSIVE digits_of(_)
digits_of(n) ==
    IF n < 10 THEN <<DigitChars[n + 1]>>
    ELSE Append(digits_of(n \div 10), DigitChars[(n % 10) + 1])

int_text(n) == IF n < 0 THEN <<"-">> \o digits_of(-n) ELSE digits_of(n)

\* to_int: std::stoll over the whole text; ok is FALSE when it throws. The
\* values in play stay far below the limits of int.
RECURSIVE digits_value(_, _)
digits_value(s, acc) ==
    IF s = <<>> THEN acc
    ELSE IF digit_value(Head(s)) < 0 THEN -1
    ELSE digits_value(Tail(s), acc * 10 + digit_value(Head(s)))

to_int(s) ==
    LET t == trim_front(s)
        neg == t # <<>> /\ Head(t) = "-"
        body == IF t # <<>> /\ Head(t) \in {"-", "+"} THEN Tail(t) ELSE t
        v == IF body = <<>> THEN -1 ELSE digits_value(body, 0)
    IN  [ok |-> v >= 0, value |-> IF neg THEN -v ELSE v]

\* parse_csv_pairs, first loop: the value cut at the commas outside quotes,
\* braces and brackets, every piece trimmed.
csv_tokens(v) ==
    LET commas == open_positions(v, ",")
        starts == {1} \cup {i + 1 : i \in commas}
        piece(from) ==
            LET later == {i \in commas : i >= from}
            IN  SubSeq(v, from, IF later = {} THEN Len(v) ELSE first_of(later) - 1)
        nth(k) == CHOOSE from \in starts : Cardinality({j \in starts : j < from}) = k - 1
    IN  [k \in 1..Cardinality(starts) |-> trim_text(piece(nth(k)))]

\* parse_csv_pairs, second loop: the pieces split at their first '='; ok is
\* FALSE when a piece is malformed or a field occurs twice.
RECURSIVE csv_pairs(_, _)
csv_pairs(tokens, kv) ==
    IF tokens = <<>> THEN [ok |-> TRUE, kv |-> kv]
    ELSE LET token == trim_text(Head(tokens))
             eq == find(token, "=")
             k == trim_text(SubSeq(token, 1, eq - 1))
             val == trim_text(SubSeq(token, eq + 1, Len(token)))
         IN  IF token = <<>> THEN csv_pairs(Tail(tokens), kv)
             ELSE IF eq = 0 \/ eq = 1 \/ eq >= Len(token) THEN [ok |-> FALSE, kv |-> kv]
             ELSE IF k = <<>> \/ k \in DOMAIN kv THEN [ok |-> FALSE, kv |-> kv]
             ELSE csv_pairs(Tail(tokens), kv @@ (k :> val))

parse_csv_pairs(v) == csv_pairs(csv_tokens(v), <<>>)

\* to_lower_ascii on a text: the capital letters in play, and the words.
lower_char(ch) ==
    CASE ch = "A" -> "a"
      [] ch = "USER" -> "user"
      [] ch = "SYSFS" -> "sysfs"
      [] OTHER -> ch

lower_text(s) == [i \in 1..Len(s) |-> lower_char(s[i])]

\* is_valid_source_id on a text: letters, digits, '_' and '-' only.
IdChars ==
    {"a", "A", "b", "n", "_", "-", "soc", "nvme", "rm500q-gl"}
    \cup {DigitChars[i] : i \in 1..10}

is_valid_id_text(id) == id # <<>> /\ \A i \in 1..Len(id) : id[i] \in IdChars

\* canonicalize_path_text on a text: the segments between slashes, without
\* empty and "." segments, ".." taking back the segment before it.
RECURSIVE path_segments(_, _, _)
path_segments(s, seg, segs) ==
    IF s = <<>> THEN IF seg = <<>> THEN segs ELSE Append(segs, seg)
    ELSE IF Head(s) = "/"
    THEN path_segments(Tail(s), <<>>, IF seg = <<>> THEN segs ELSE Append(segs, seg))
    ELSE path_segments(Tail(s), Append(seg, Head(s)), segs)

RECURSIVE path_parts(_, _, _)
path_parts(segs, parts, absolute) ==
    IF segs = <<>> THEN parts
    ELSE LET seg == Head(segs)
         IN  IF seg = <<".">> THEN path_parts(Tail(segs), parts, absolute)
             ELSE IF seg = <<".", ".">>
             THEN IF parts # <<>> /\ parts[Len(parts)] # <<".", ".">>
                  THEN path_parts(Tail(segs), SubSeq(parts, 1, Len(parts) - 1), absolute)
                  ELSE IF ~absolute
                  THEN path_parts(Tail(segs), Append(parts, seg), absolute)
                  ELSE path_parts(Tail(segs), parts, absolute)
             ELSE path_parts(Tail(segs), Append(parts, seg), absolute)

RECURSIVE path_joined(_, _)
path_joined(parts, idx) ==
    IF idx > Len(parts) THEN <<>>
    ELSE (IF idx > 1 THEN <<"/">> ELSE <<>>) \o parts[idx] \o path_joined(parts, idx + 1)

canonical_path(path) ==
    LET in == trim_text(path)
        absolute == in # <<>> /\ Head(in) = "/"
        parts == path_parts(path_segments(in, <<>>, <<>>), <<>>, absolute)
        normalized == (IF absolute THEN <<"/">> ELSE <<>>) \o path_joined(parts, 1)
    IN  IF in = <<>> THEN <<>>
        ELSE IF normalized = <<>> THEN <<".">>
        ELSE normalized

\* nlohmann::json parse and dump on the argument texts in play: {} in two
\* spellings, an object with one string member, an object whose string holds
\* a comma, a '#', a brace and an apostrophe, and an array.
JsonEmpty == <<"{", "}">>
JsonSpaced == <<"{", " ", "}">>
JsonMember == <<"{", "\"", "k", "\"", ":", "\"", "a", "\"", "}">>
JsonMarks == <<"{", "\"", "k", "\"", ":", "\"", ",", "#", "}", "'", "\"", "}">>
JsonArray == <<"[", "1", "]">>
JsonTemplate == <<"{", "\"", "config_section", "\"", ":", "\"", "2_1", "\"", "}">>

canonical_json_object(s) ==
    IF s = JsonSpaced THEN [ok |-> TRUE, text |-> JsonEmpty]
    ELSE IF s \in {JsonEmpty, JsonMember, JsonMarks, JsonTemplate} THEN [ok |-> TRUE, text |-> s]
    ELSE [ok |-> FALSE, text |-> s]

\* source_resource_key on texts.
resource_key_text(s) ==
    IF s.type = <<"sysfs">> THEN <<"sysfs", ":">> \o s.path
    ELSE IF s.type = <<"ubus">>
    THEN <<"ubus", ":">> \o s.object \o <<"|">> \o s.method \o <<"|">> \o s.key
             \o <<"|">> \o s.args_json
    ELSE s.type \o <<":">>

\* validate_board_config on a configuration whose texts are sequences of
\* characters: the body of the loop over the sources.
validate_text_source(s0, seen_source_ids, seen_resource_owner) ==
    LET s == [s0 EXCEPT !.id = trim_text(@), !.type = lower_text(trim_text(@)),
                        !.path = trim_text(@), !.object = trim_text(@),
                        !.method = trim_text(@), !.key = trim_text(@),
                        !.args_json = trim_text(@)]
        sysfs == [s EXCEPT !.path = canonical_path(@), !.object = <<>>,
                           !.method = <<>>, !.key = <<>>, !.args_json = <<>>]
        json == canonical_json_object(IF s.args_json = <<>> THEN JsonEmpty ELSE s.args_json)
        ubus == [s EXCEPT !.args_json = json.text, !.path = <<>>]
        done == IF s.type = <<"sysfs">> THEN sysfs ELSE ubus
    IN  IF ~is_valid_id_text(s.id) THEN [error |-> "invalid SOURCE id", src |-> s]
        ELSE IF s.id \in seen_source_ids THEN [error |-> "duplicate SOURCE id", src |-> s]
        ELSE IF s.poll_sec < ConfigSpec.poll_sec.min_value THEN [error |-> "poll", src |-> s]
        ELSE IF s.ttl_sec < ConfigSpec.ttl_sec.min_value THEN [error |-> "ttl", src |-> s]
        ELSE IF s.ttl_sec < s.poll_sec THEN [error |-> "ttl must be >= poll", src |-> s]
        ELSE IF ~ensure_int_in_range(s.weight, ConfigSpec.weight)
        THEN [error |-> "weight", src |-> s]
        ELSE IF ~ensure_int_in_range(s.t_start_mC, ConfigSpec.t_start_mC)
        THEN [error |-> "t_start", src |-> s]
        ELSE IF ~ensure_int_in_range(s.t_full_mC, ConfigSpec.t_full_mC)
        THEN [error |-> "t_full", src |-> s]
        ELSE IF ~ensure_int_in_range(s.t_crit_mC, ConfigSpec.t_crit_mC)
        THEN [error |-> "t_crit", src |-> s]
        ELSE IF ~(s.t_start_mC < s.t_full_mC /\ s.t_full_mC <= s.t_crit_mC)
        THEN [error |-> "invalid thermal thresholds", src |-> s]
        ELSE IF s.type = <<"sysfs">> /\ s.path = <<>> THEN [error |-> "path", src |-> s]
        ELSE IF s.type = <<"sysfs">>
                /\ (sysfs.path = <<>> \/ sysfs.path = <<".">> \/ Head(sysfs.path) # "/")
        THEN [error |-> "absolute path", src |-> sysfs]
        ELSE IF s.type = <<"ubus">> /\ (s.object = <<>> \/ s.method = <<>> \/ s.key = <<>>)
        THEN [error |-> "ubus fields", src |-> s]
        ELSE IF s.type = <<"ubus">> /\ ~json.ok THEN [error |-> "invalid JSON", src |-> s]
        ELSE IF s.type \notin {<<"sysfs">>, <<"ubus">>} THEN [error |-> "source type", src |-> s]
        ELSE IF resource_key_text(done) \in seen_resource_owner
        THEN [error |-> "duplicate source resource", src |-> done]
        ELSE [error |-> "", src |-> done]

\* The loop of validate_board_config over the sources: checked is
\* the outcome of the checks on the first source left; the loop ends at the
\* first error and otherwise records the id and the resource of the source.
RECURSIVE validate_text_sources(_, _, _, _)
RECURSIVE validate_text_sources_from(_, _, _, _, _)
validate_text_sources_from(checked, todo, done, seen_source_ids, seen_resource_owner) ==
    IF checked.error # "" THEN [error |-> checked.error, sources |-> done]
    ELSE validate_text_sources(Tail(todo), Append(done, checked.src),
                               seen_source_ids \cup {checked.src.id},
                               seen_resource_owner \cup {resource_key_text(checked.src)})

validate_text_sources(todo, done, seen_source_ids, seen_resource_owner) ==
    IF todo = <<>> THEN [error |-> "", sources |-> done]
    ELSE validate_text_sources_from(
             validate_text_source(Head(todo), seen_source_ids, seen_resource_owner),
             todo, done, seen_source_ids, seen_resource_owner)

\* validate_board_config on such a configuration: the configuration as it is
\* left, or the error thrown (ok is FALSE).
validate_text_config(doc) ==
    LET mode1 == lower_text(trim_text(doc.control_mode))
        mode == IF mode1 = <<>> THEN <<DefaultControlMode>> ELSE mode1
        c1 == [doc EXCEPT !.control_mode = mode,
                          !.pwm_path = trim_text(@),
                          !.pwm_enable_path = trim_text(@),
                          !.control_mode_path = trim_text(@)]
        c2 == [c1 EXCEPT !.pwm_enable_path =
                             IF @ = <<>> THEN Append(c1.pwm_path, "_enable") ELSE @,
                         !.control_mode_path =
                             IF @ = <<>> THEN <<DefaultControlModePath>> ELSE @]
        srcs == validate_text_sources(c2.sources, <<>>, {}, {})
    IN  IF mode \notin {<<m>> : m \in ControlModeValues} THEN Rejected(doc, "CONTROL_MODE")
        ELSE IF ~ensure_int_in_range(c1.interval_sec, ConfigSpec.interval_sec)
        THEN Rejected(doc, "INTERVAL")
        ELSE IF c1.pwm_path = <<>> THEN Rejected(doc, "PWM_PATH")
        ELSE IF ~ensure_int_in_range(c2.pwm_min, ConfigSpec.pwm_min)
        THEN Rejected(doc, "PWM_MIN")
        ELSE IF ~ensure_int_in_range(c2.pwm_max, ConfigSpec.pwm_max)
        THEN Rejected(doc, "PWM_MAX")
        ELSE IF ~ensure_int_in_range(c2.failsafe_pwm, ConfigSpec.failsafe_pwm)
        THEN Rejected(doc, "FAILSAFE_PWM")
        ELSE IF ~ensure_int_in_range(c2.ramp_up, ConfigSpec.ramp_up)
        THEN Rejected(doc, "RAMP_UP")
        ELSE IF ~ensure_int_in_range(c2.ramp_down, ConfigSpec.ramp_down)
        THEN Rejected(doc, "RAMP_DOWN")
        ELSE IF ~ensure_int_in_range(c2.hysteresis_mC, ConfigSpec.hysteresis_mC)
        THEN Rejected(doc, "HYSTERESIS_MC")
        ELSE IF srcs.error # "" THEN Rejected(doc, srcs.error)
        ELSE IF c2.sources = <<>> THEN Rejected(doc, "no SOURCE")
        ELSE [ok |-> TRUE, error |-> "", cfg |-> [c2 EXCEPT !.sources = srcs.sources]]

\* Defaults of the source fields and of the top-level settings (kSpec).
SourceFieldDefaults ==
    [t_start_mC |-> 60000, t_full_mC |-> 80000, t_crit_mC |-> 90000,
     ttl_sec |-> 10, poll_sec |-> 2, weight |-> 100]

default_text_config ==
    [interval_sec |-> 1, control_mode |-> <<DefaultControlMode>>,
     pwm_path |-> <<"/sys/class/hwmon/hwmon2/pwm1">>,
     pwm_enable_path |-> <<"/sys/class/hwmon/hwmon2/pwm1_enable">>,
     control_mode_path |-> <<DefaultControlModePath>>,
     pwm_min |-> 0, pwm_max |-> 255, ramp_up |-> 5, ramp_down |-> 10,
     hysteresis_mC |-> 2000, failsafe_pwm |-> 64, sources |-> <<>>]

is_allowed_source_field(type, field) ==
    \/ field \in {<<"type">>, <<"t_start">>, <<"t_full">>, <<"t_crit">>, <<"ttl">>,
                  <<"poll">>, <<"weight">>}
    \/ type = <<"sysfs">> /\ field = <<"path">>
    \/ type = <<"ubus">> /\ field \in {<<"object">>, <<"method">>, <<"key">>, <<"args">>}

\* A field of a source line read as an integer, or its default when the line
\* does not give it.
int_field(kv, name, default) ==
    IF <<name>> \in DOMAIN kv THEN to_int(kv[<<name>>]) ELSE [ok |-> TRUE, value |-> default]

text_field(kv, name) == IF <<name>> \in DOMAIN kv THEN trim_text(kv[<<name>>]) ELSE <<>>

\* parse_source_line: the source a SOURCE_<id> line describes, from the
\* key=value pairs parse_csv_pairs found in it; ok is FALSE when it throws.
source_from_pairs(id, parsed, fallback_poll_sec) ==
    LET kv == parsed.kv
        type == IF <<"type">> \in DOMAIN kv THEN lower_text(trim_text(kv[<<"type">>])) ELSE <<>>
        poll == int_field(kv, "poll", fallback_poll_sec)
        ttl == int_field(kv, "ttl", 2 * Max2(poll.value, fallback_poll_sec))
        weight == int_field(kv, "weight", SourceFieldDefaults.weight)
        t_start == int_field(kv, "t_start", SourceFieldDefaults.t_start_mC)
        t_full == int_field(kv, "t_full", SourceFieldDefaults.t_full_mC)
        t_crit == int_field(kv, "t_crit", SourceFieldDefaults.t_crit_mC)
        out == [id |-> trim_text(id), type |-> type,
                path |-> IF type = <<"sysfs">> THEN text_field(kv, "path") ELSE <<>>,
                object |-> IF type = <<"ubus">> THEN text_field(kv, "object") ELSE <<>>,
                method |-> IF type = <<"ubus">> THEN text_field(kv, "method") ELSE <<>>,
                key |-> IF type = <<"ubus">> THEN text_field(kv, "key") ELSE <<>>,
                args_json |-> IF type # <<"ubus">> THEN <<>>
                              ELSE IF <<"args">> \in DOMAIN kv THEN trim_text(kv[<<"args">>])
                              ELSE JsonEmpty,
                t_start_mC |-> t_start.value, t_full_mC |-> t_full.value,
                t_crit_mC |-> t_crit.value, ttl_sec |-> ttl.value,
                poll_sec |-> poll.value, weight |-> weight.value]
    IN  [ok |-> /\ parsed.ok
                /\ <<"type">> \in DOMAIN kv
                /\ \A field \in DOMAIN kv : is_allowed_source_field(type, field)
                /\ poll.ok /\ ttl.ok /\ weight.ok /\ t_start.ok /\ t_full.ok /\ t_crit.ok
                /\ type \in {<<"sysfs">>, <<"ubus">>},
         src |-> out]

parse_source_line(id, rhs, fallback_poll_sec) ==
    source_from_pairs(id, parse_csv_pairs(rhs), fallback_poll_sec)

\* render_board_config_text: the lines of the text.
render_source_line(s) ==
    <<"SOURCE_">> \o s.id \o <<"=", "type", "=">> \o s.type
    \o (IF s.type = <<"sysfs">>
        THEN <<",", "path", "=">> \o s.path
        ELSE <<",", "object", "=">> \o s.object \o <<",", "method", "=">> \o s.method
             \o <<",", "key", "=">> \o s.key \o <<",", "args", "=">> \o s.args_json)
    \o <<",", "t_start", "=">> \o int_text(s.t_start_mC)
    \o <<",", "t_full", "=">> \o int_text(s.t_full_mC)
    \o <<",", "t_crit", "=">> \o int_text(s.t_crit_mC)
    \o <<",", "ttl", "=">> \o int_text(s.ttl_sec)
    \o <<",", "poll", "=">> \o int_text(s.poll_sec)
    \o <<",", "weight", "=">> \o int_text(s.weight)

render_board_config_text(c) ==
    << <<"#", " ", "Configuration file generated by fancontrol">>,
       <<"INTERVAL", "=">> \o int_text(c.interval_sec),
       <<"CONTROL_MODE", "=">> \o c.control_mode,
       <<"PWM_PATH", "=">> \o c.pwm_path,
       <<"PWM_ENABLE_PATH", "=">> \o c.pwm_enable_path,
       <<"CONTROL_MODE_PATH", "=">> \o c.control_mode_path,
       <<"PWM_MIN", "=">> \o int_text(c.pwm_min),
       <<"PWM_MAX", "=">> \o int_text(c.pwm_max),
       <<"RAMP_UP", "=">> \o int_text(c.ramp_up),
       <<"RAMP_DOWN", "=">> \o int_text(c.ramp_down),
       <<"HYSTERESIS_MC", "=">> \o int_text(c.hysteresis_mC),
       <<"FAILSAFE_PWM", "=">> \o int_text(c.failsafe_pwm) >>
    \o [i \in 1..Len(c.sources) |-> render_source_line(c.sources[i])]

TopLevelKeys ==
    {"INTERVAL", "CONTROL_MODE", "PWM_PATH", "PWM_ENABLE_PATH", "CONTROL_MODE_PATH",
     "PWM_MIN", "PWM_MAX", "RAMP_UP", "RAMP_DOWN", "HYSTERESIS_MC", "FAILSAFE_PWM"}

is_known_top_level_key(k) == k \in {<<w>> : w \in TopLevelKeys}

\* load_board_config, the loop over the lines: the top-level settings and the
\* SOURCE_ lines found; ok is FALSE when a line is rejected.
RECURSIVE read_lines(_, _, _)
read_lines(lines, plain, sources) ==
    IF lines = <<>> THEN [ok |-> TRUE, plain |-> plain, sources |-> sources]
    ELSE LET line == trim_text(strip_inline_comment(Head(lines)))
             eq == find(line, "=")
             k == trim_text(SubSeq(line, 1, eq - 1))
             value == trim_text(SubSeq(line, eq + 1, Len(line)))
         IN  IF line = <<>> THEN read_lines(Tail(lines), plain, sources)
             ELSE IF eq = 0 THEN [ok |-> FALSE, plain |-> plain, sources |-> sources]
             ELSE IF k # <<>> /\ Head(k) = "SOURCE_" /\ Len(k) > 1
             THEN read_lines(Tail(lines), plain, Append(sources, <<Tail(k), value>>))
             ELSE IF ~is_known_top_level_key(k) \/ k \in DOMAIN plain
             THEN [ok |-> FALSE, plain |-> plain, sources |-> sources]
             ELSE read_lines(Tail(lines), plain @@ (k :> value), sources)

\* A top-level setting read as an integer or as text, or the default.
plain_int(plain, name, default) ==
    IF <<name>> \in DOMAIN plain THEN to_int(plain[<<name>>])
    ELSE [ok |-> TRUE, value |-> default]

plain_text(plain, name, default) ==
    IF <<name>> \in DOMAIN plain THEN plain[<<name>>] ELSE default

\* load_board_config on the lines of a file, from what the loop over the
\* lines read: the validated configuration, or ok FALSE when it throws.
load_board_config_from(read) ==
    LET d == default_text_config
        interval == plain_int(read.plain, "INTERVAL", d.interval_sec)
        pwm_min == plain_int(read.plain, "PWM_MIN", d.pwm_min)
        pwm_max == plain_int(read.plain, "PWM_MAX", d.pwm_max)
        ramp_up == plain_int(read.plain, "RAMP_UP", d.ramp_up)
        ramp_down == plain_int(read.plain, "RAMP_DOWN", d.ramp_down)
        hysteresis == plain_int(read.plain, "HYSTERESIS_MC", d.hysteresis_mC)
        failsafe == plain_int(read.plain, "FAILSAFE_PWM", d.failsafe_pwm)
        parsed == [i \in 1..Len(read.sources) |->
                      parse_source_line(read.sources[i][1], read.sources[i][2],
                                        interval.value)]
        loaded == [interval_sec |-> interval.value,
                   control_mode |-> plain_text(read.plain, "CONTROL_MODE", d.control_mode),
                   pwm_path |-> plain_text(read.plain, "PWM_PATH", d.pwm_path),
                   pwm_enable_path |->
                       plain_text(read.plain, "PWM_ENABLE_PATH", d.pwm_enable_path),
                   control_mode_path |->
                       plain_text(read.plain, "CONTROL_MODE_PATH", d.control_mode_path),
                   pwm_min |-> pwm_min.value, pwm_max |-> pwm_max.value,
                   ramp_up |-> ramp_up.value, ramp_down |-> ramp_down.value,
                   hysteresis_mC |-> hysteresis.value, failsafe_pwm |-> failsafe.value,
                   sources |-> [i \in 1..Len(parsed) |-> parsed[i].src]]
    IN  IF ~read.ok THEN Rejected(loaded, "line")
        ELSE IF ~(interval.ok /\ pwm_min.ok /\ pwm_max.ok /\ ramp_up.ok /\ ramp_down.ok
                  /\ hysteresis.ok /\ failsafe.ok)
        THEN Rejected(loaded, "integer")
        ELSE IF \E i \in 1..Len(parsed) : ~parsed[i].ok THEN Rejected(loaded, "source line")
        ELSE validate_text_config(loaded)

load_board_config(lines) == load_board_config_from(read_lines(lines, <<>>, <<>>))

\* ---------------------------------------------------------------------------
\* Specification of a configuration validated, rendered to text, loaded from
\* that text and rendered again
\* ---------------------------------------------------------------------------
TextSysfs(id, path) ==
    [id |-> id, type |-> <<"sysfs">>, path |-> path, object |-> <<>>, method |-> <<>>,
     key |-> <<>>, args_json |-> <<>>, t_start_mC |-> 60000, t_full_mC |-> 82000,
     t_crit_mC |-> 90000, ttl_sec |-> 6, poll_sec |-> 1, weight |-> 100]

TextUbus(id, object, args) ==
    [id |-> id, type |-> <<"ubus">>, path |-> <<>>, object |-> object,
     method |-> <<"get_temperature">>, key |-> <<"temp_mC">>, args_json |-> args,
     t_start_mC |-> -5000, t_full_mC |-> 76000, t_crit_mC |-> 85000,
     ttl_sec |-> 20, poll_sec |-> 10, weight |-> 130]

\* Register paths given to validation: plain, untrimmed, with a space inside,
\* with an '=', with a '#', with an apostrophe.
TextPwmPaths ==
    { <<"/", "p">>, <<" ", "/", "p", " ">>, <<"/", "p", " ", "q">>, <<"/", "p", "=", "1">>,
      <<"/", "p", "#", "1">>, <<"/", "p", "'", "s">> }

\* Sysfs paths: plain, to be normalized, with a comma, a '#', an '=', a quote.
TextSysfsPaths ==
    { <<"/", "t">>, <<"/", "t", "/", ".", ".", "/", "/", "u">>, <<"/", "t", ",", "b">>,
      <<"/", "t", "#">>, <<"/", "t", "=", "b">>, <<"/", "t", "\"">> }

\* Source lists: one sysfs source, one ubus source with each argument text,
\* a sysfs and a ubus source together.
TextSources ==
    { <<TextSysfs(<<"a">>, path)>> : path \in TextSysfsPaths }
    \cup { <<TextUbus(<<"n", "-", "1">>, <<"qmodem">>, args)>> :
              args \in {<<>>, JsonEmpty, JsonSpaced, JsonMember, JsonMarks, JsonArray} }
    \cup { <<TextSysfs(<<"a">>, <<"/", "t">>),
             TextUbus(<<"b", "_", "2">>, <<"q", ",", "m">>, JsonMember)>>,
           <<TextSysfs(<<"A">>, <<"/", "t">>),
             [TextSysfs(<<" ", "n">>, <<"/", "u">>) EXCEPT !.type = <<"SYSFS">>]>> }

TextBase ==
    [interval_sec |-> 1, control_mode |-> <<"user">>, pwm_path |-> <<"/", "p">>,
     pwm_enable_path |-> <<>>, control_mode_path |-> <<>>,
     pwm_min |-> 0, pwm_max |-> 255, failsafe_pwm |-> 64,
     ramp_up |-> 5, ramp_down |-> 10, hysteresis_mC |-> 2000,
     sources |-> <<TextSysfs(<<"a">>, <<"/", "t">>)>>]

\* Configurations given to validation.
TextDocuments ==
    { [TextBase EXCEPT !.pwm_path = path, !.sources = srcs] :
          path \in TextPwmPaths, srcs \in TextSources }
    \cup
    { [TextBase EXCEPT !.control_mode = mode, !.pwm_min = lo, !.interval_sec = interval,
                       !.control_mode_path = cpath] :
          mode \in {<<"kernel">>, <<" ", "USER">>, <<>>, <<"auto">>}, lo \in {0, 200, 256},
          interval \in {1, 30}, cpath \in {<<>>, <<"/", "m", "#">>} }

RoundTripInit ==
    /\ cfg = board_config("user", 0, 255, 64, 1, 2)
    /\ active = [id \in SourceIds |-> FALSE]
    /\ \E doc \in TextDocuments :
           call = [fn |-> "document", doc |-> doc, out |-> Rejected(doc, ""),
                   text |-> <<>>, loaded |-> Rejected(doc, ""), again |-> <<>>]
    /\ Quiet

\* validate_board_config on the configuration.
ValidateText ==
    /\ call.fn = "document"
    /\ call' = [call EXCEPT !.fn = "validate_board_config",
                            !.out = validate_text_config(call.doc)]
    /\ UNCHANGED <<cfg, active, quietVars>>

\* render_board_config_text on an accepted configuration.
RenderText ==
    /\ call.fn = "validate_board_config"
    /\ call.out.ok
    /\ call' = [call EXCEPT !.fn = "render_board_config_text",
                            !.text = render_board_config_text(call.out.cfg)]
    /\ UNCHANGED <<cfg, active, quietVars>>

\* load_board_config on the file that holds the text.
LoadText ==
    /\ call.fn = "render_board_config_text"
    /\ call' = [call EXCEPT !.fn = "load_board_config",
                            !.loaded = load_board_config(call.text)]
    /\ UNCHANGED <<cfg, active, quietVars>>

\* render_board_config_text on the configuration loaded.
RenderAgain ==
    /\ call.fn = "load_board_config"
    /\ call.loaded.ok
    /\ call' = [call EXCEPT !.fn = "rendered_again",
                            !.again = render_board_config_text(call.loaded.cfg)]
    /\ UNCHANGED <<cfg, active, quietVars>>

RoundTripNext ==
    \/ ValidateText
    \/ RenderText
    \/ LoadText
    \/ RenderAgain

SpecRoundTrip == RoundTripInit /\ [][RoundTripNext]_vars

\* C32: the text rendered from an accepted configuration is loaded without
\* rejection, and rendering the loaded configuration gives the same text.
C32_RenderLoadRenderIsStable ==
    /\ call.fn = "load_board_config" => call.loaded.ok
    /\ call.fn = "rendered_again" => call.again = call.text

\* The characters the parser of the text treats specially outside braces.
ParserMarks == {"#", ",", "\"", "'"}

\* A text of the configuration holds none of them.
PlainText(s) == \A i \in 1..Len(s) : s[i] \notin ParserMarks

PlainConfig(c) ==
    /\ PlainText(c.pwm_path) /\ PlainText(c.pwm_enable_path) /\ PlainText(c.control_mode_path)
    /\ \A i \in 1..Len(c.sources) :
          /\ PlainText(c.sources[i].path) /\ PlainText(c.sources[i].object)
          /\ PlainText(c.sources[i].method) /\ PlainText(c.sources[i].key)

\* The round trip is stable for accepted configurations whose paths and ubus
\* names hold no '#', comma or quote, whatever the argument JSON holds.
RoundTripStableWithoutMarks ==
    PlainConfig(call.out.cfg) => C32_RenderLoadRenderIsStable

\* A comment mark in the PWM path: the text is loaded, with the path cut.
PathCutAtCommentMark ==
    /\ call.fn = "rendered_again"
    /\ call.out.cfg.pwm_path = <<"/", "p", "#", "1">>
    /\ call.loaded.cfg.pwm_path = <<"/", "p">>

\* A comma in a sysfs path: the text rendered is rejected by the loader.
RenderedTextRejected ==
    /\ call.fn = "load_board_config"
    /\ ~call.loaded.ok

\* ---------------------------------------------------------------------------
\* --apply-config-json (main.cpp): the payload read from standard input is
\* rendered to a configuration text, written to a temporary file, loaded
\* from it and renamed over the configuration file.
\* ---------------------------------------------------------------------------
\* sanitize_field: without CR, LF and ';', and trimmed.
sanitize_field(s) == trim_text(SelectSeq(s, LAMBDA ch : ch \notin {"\r", "\n", ";"}))

\* parse_optional_int: has is FALSE for an empty text, ok is FALSE when it
\* throws.
parse_optional_int(raw) ==
    LET t == trim_text(raw)
        r == to_int(t)
    IN  IF t = <<>> THEN [ok |-> TRUE, has |-> FALSE, value |-> 0]
        ELSE [ok |-> r.ok, has |-> r.ok, value |-> r.value]

\* The value of an integer field of the payload, or the value kept.
optional_or(v, kept) == IF v.has THEN v.value ELSE kept

\* parse_optional_bool01.
parse_optional_bool01(raw) ==
    LET t == lower_text(sanitize_field(raw))
    IN  IF t = <<>> THEN [ok |-> TRUE, has |-> FALSE, value |-> 0]
        ELSE IF t \in {<<"1">>, <<"true">>} THEN [ok |-> TRUE, has |-> TRUE, value |-> 1]
        ELSE IF t \in {<<"0">>, <<"false">>} THEN [ok |-> TRUE, has |-> TRUE, value |-> 0]
        ELSE [ok |-> FALSE, has |-> FALSE, value |-> 0]

\* normalize_control_mode: ok is FALSE when it throws.
normalize_control_mode(raw) ==
    LET t == lower_text(sanitize_field(raw))
    IN  [ok |-> t \in {<<m>> : m \in ControlModeValues}, text |-> t]

\* make_rpc_source_defaults.
make_rpc_source_defaults(interval_sec) ==
    LET poll == Max2(interval_sec, ConfigSpec.poll_sec.min_value)
    IN  [id |-> <<>>, type |-> <<>>, path |-> <<>>, object |-> <<>>, method |-> <<>>,
         key |-> <<>>, args_json |-> JsonEmpty,
         t_start_mC |-> SourceFieldDefaults.t_start_mC,
         t_full_mC |-> SourceFieldDefaults.t_full_mC,
         t_crit_mC |-> SourceFieldDefaults.t_crit_mC,
         ttl_sec |-> Max2(poll * 2, interval_sec * 2), poll_sec |-> poll,
         weight |-> SourceFieldDefaults.weight]

\* parse_sources_from_rpc_payload, the body of the loop over the entries:
\* skip is TRUE for a disabled entry, ok is FALSE when a field throws.
parse_rpc_source(entry, interval_sec) ==
    LET enabled == parse_optional_bool01(entry.enabled)
        d == make_rpc_source_defaults(interval_sec)
        args == sanitize_field(entry.args)
        t_start == parse_optional_int(entry.t_start)
        t_full == parse_optional_int(entry.t_full)
        t_crit == parse_optional_int(entry.t_crit)
        poll == parse_optional_int(entry.poll)
        ttl == parse_optional_int(entry.ttl)
        weight == parse_optional_int(entry.weight)
        poll_sec == optional_or(poll, d.poll_sec)
    IN  [ok |-> /\ enabled.ok
                /\ (enabled.has /\ enabled.value = 0)
                   \/ (/\ t_start.ok /\ t_full.ok /\ t_crit.ok
                       /\ poll.ok /\ ttl.ok /\ weight.ok),
         skip |-> enabled.has /\ enabled.value = 0,
         src |-> [id |-> sanitize_field(entry.id),
                  type |-> lower_text(sanitize_field(entry.type)),
                  path |-> sanitize_field(entry.path),
                  object |-> sanitize_field(entry.object),
                  method |-> sanitize_field(entry.method),
                  key |-> sanitize_field(entry.key),
                  args_json |-> IF args = <<>> THEN JsonEmpty ELSE args,
                  t_start_mC |-> optional_or(t_start, d.t_start_mC),
                  t_full_mC |-> optional_or(t_full, d.t_full_mC),
                  t_crit_mC |-> optional_or(t_crit, d.t_crit_mC),
                  poll_sec |-> poll_sec,
                  ttl_sec |-> IF ttl.has THEN ttl.value
                              ELSE Max2(poll_sec * 2, interval_sec * 2),
                  weight |-> optional_or(weight, d.weight)]]

\* parse_sources_from_rpc_payload: the sources of the entries that are not
\* disabled, from the outcome of the loop body on every entry; ok is FALSE
\* when it throws.
sources_from_entries(is_array, parsed) ==
    LET first_bad == {i \in 1..Len(parsed) : ~parsed[i].ok}
        kept == SelectSeq(parsed, LAMBDA r : ~r.skip)
    IN  [ok |-> is_array /\ first_bad = {},
         sources |-> [i \in 1..Len(kept) |-> kept[i].src]]

parse_sources_from_rpc_payload(payload, interval_sec) ==
    sources_from_entries(payload.sources_is_array,
                         [i \in 1..Len(payload.sources) |->
                             parse_rpc_source(payload.sources[i], interval_sec)])

\* The source templates of the built-in profile (kSourceTemplates).
TemplateSources ==
    << [id |-> <<"soc">>, type |-> <<"sysfs">>,
        path |-> <<"/", "sys/class/thermal/thermal_zone0/temp">>,
        object |-> <<>>, method |-> <<>>, key |-> <<>>, args_json |-> <<>>,
        t_start_mC |-> 60000, t_full_mC |-> 82000, t_crit_mC |-> 90000,
        ttl_sec |-> 6, poll_sec |-> 1, weight |-> 100],
       [id |-> <<"nvme">>, type |-> <<"sysfs">>,
        path |-> <<"/", "sys/class/nvme/nvme0/hwmon1/temp1_input">>,
        object |-> <<>>, method |-> <<>>, key |-> <<>>, args_json |-> <<>>,
        t_start_mC |-> 50000, t_full_mC |-> 70000, t_crit_mC |-> 80000,
        ttl_sec |-> 6, poll_sec |-> 1, weight |-> 120],
       [id |-> <<"rm500q-gl">>, type |-> <<"ubus">>, path |-> <<>>,
        object |-> <<"qmodem">>, method |-> <<"get_temperature">>,
        key |-> <<"temp_mC">>, args_json |-> JsonTemplate,
        t_start_mC |-> 58000, t_full_mC |-> 76000, t_crit_mC |-> 85000,
        ttl_sec |-> 20, poll_sec |-> 10, weight |-> 130] >>

\* default_board_config: the built-in profile with its sources.
default_board_config == [default_text_config EXCEPT !.sources = TemplateSources]

\* render_board_config_from_rpc_json, its last two statements: the text of
\* the configuration that validate_board_config left, unless it threw.
render_validated(checked) ==
    IF ~checked.ok THEN [ok |-> FALSE, text |-> <<>>]
    ELSE [ok |-> TRUE, text |-> render_board_config_text(checked.cfg)]

\* render_board_config_from_rpc_json: the text rendered from an object
\* payload; ok is FALSE when a field or the validation throws.
render_board_config_from_rpc_json(payload) ==
    LET d == default_board_config
        interval == parse_optional_int(payload.interval)
        mode == normalize_control_mode(payload.control_mode)
        has_mode == trim_text(payload.control_mode) # <<>>
        pwm_path == sanitize_field(payload.pwm_path)
        pwm_enable_path == sanitize_field(payload.pwm_enable_path)
        control_mode_path == sanitize_field(payload.control_mode_path)
        pwm_min == parse_optional_int(payload.pwm_min)
        pwm_max == parse_optional_int(payload.pwm_max)
        ramp_up == parse_optional_int(payload.ramp_up)
        ramp_down == parse_optional_int(payload.ramp_down)
        hysteresis == parse_optional_int(payload.hysteresis_mC)
        failsafe == parse_optional_int(payload.failsafe_pwm)
        interval_sec == optional_or(interval, d.interval_sec)
        srcs == parse_sources_from_rpc_payload(payload, interval_sec)
        c == [interval_sec |-> interval_sec,
              control_mode |-> IF has_mode THEN mode.text ELSE d.control_mode,
              pwm_path |-> IF pwm_path # <<>> THEN pwm_path ELSE d.pwm_path,
              pwm_enable_path |->
                  IF pwm_enable_path # <<>> THEN pwm_enable_path ELSE d.pwm_enable_path,
              control_mode_path |->
                  IF control_mode_path # <<>> THEN control_mode_path
                  ELSE d.control_mode_path,
              pwm_min |-> optional_or(pwm_min, d.pwm_min),
              pwm_max |-> optional_or(pwm_max, d.pwm_max),
              ramp_up |-> optional_or(ramp_up, d.ramp_up),
              ramp_down |-> optional_or(ramp_down, d.ramp_down),
              hysteresis_mC |-> optional_or(hysteresis, d.hysteresis_mC),
              failsafe_pwm |-> optional_or(failsafe, d.failsafe_pwm),
              sources |-> IF payload.has_sources THEN srcs.sources ELSE d.sources]
    IN  IF ~interval.ok \/ (has_mode /\ ~mode.ok) \/ ~pwm_min.ok \/ ~pwm_max.ok
           \/ ~ramp_up.ok \/ ~ramp_down.ok \/ ~hysteresis.ok \/ ~failsafe.ok
           \/ (payload.has_sources /\ ~srcs.ok)
        THEN [ok |-> FALSE, text |-> <<>>]
        ELSE render_validated(validate_text_config(c))

\* ---------------------------------------------------------------------------
\* Specification of one run of --apply-config-json
\* ---------------------------------------------------------------------------
RpcSource(id, type, path) ==
    [enabled |-> <<>>, id |-> id, type |-> type, path |-> path, object |-> <<>>,
     method |-> <<>>, key |-> <<>>, args |-> <<>>, t_start |-> <<>>, t_full |-> <<>>,
     t_crit |-> <<>>, poll |-> <<>>, ttl |-> <<>>, weight |-> <<>>]

RpcBase ==
    [kind |-> "object", interval |-> <<>>, control_mode |-> <<>>,
     pwm_path |-> <<"/", "p">>, pwm_enable_path |-> <<>>, control_mode_path |-> <<>>,
     pwm_min |-> <<>>, pwm_max |-> <<>>, ramp_up |-> <<>>, ramp_down |-> <<>>,
     hysteresis_mC |-> <<>>, failsafe_pwm |-> <<>>,
     has_sources |-> TRUE, sources_is_array |-> TRUE,
     sources |-> <<RpcSource(<<"a">>, <<"sysfs">>, <<"/", "t">>)>>]

\* Source lists of the payloads: ids plain, with a space inside, with a
\* space and a ';' at the ends, empty; paths plain, with a line feed, with a
\* comma; two sources; a disabled source; a poll that is no integer.
RpcSourceLists ==
    { <<RpcSource(id, <<"sysfs">>, path)>> :
          id \in {<<"a">>, <<"a", " ", "b">>, <<" ", "a", ";">>, <<>>},
          path \in {<<"/", "t">>, <<"/", "t", "\n", "u">>, <<"/", "t", ",", "b">>} }
    \cup { <<RpcSource(<<"a">>, <<"SYSFS">>, <<"/", "t">>),
             RpcSource(<<"b">>, <<"sysfs">>, <<"/", "u">>)>>,
           <<RpcSource(<<"a">>, <<"sysfs">>, <<"/", "t">>),
             RpcSource(<<"b">>, <<"sysfs">>, <<"/", "t">>)>>,
           <<[RpcSource(<<"a">>, <<"sysfs">>, <<"/", "t">>) EXCEPT !.enabled = <<"0">>]>>,
           <<[RpcSource(<<"a">>, <<"sysfs">>, <<"/", "t">>) EXCEPT !.enabled = <<"0">>,
                                                                  !.poll = <<"x">>],
             RpcSource(<<"b">>, <<"sysfs">>, <<"/", "u">>)>>,
           <<[RpcSource(<<"a">>, <<"sysfs">>, <<"/", "t">>) EXCEPT !.poll = <<"x">>]>>,
           <<[RpcSource(<<"a">>, <<"sysfs">>, <<"/", "t">>) EXCEPT !.poll = <<"9">>,
                                                                  !.ttl = <<"3">>]>> }

\* Payloads on standard input: a text that is no JSON, a JSON array, objects.
RpcPayloads ==
    { [RpcBase EXCEPT !.kind = kind] : kind \in {"malformed", "array"} }
    \cup { [RpcBase EXCEPT !.sources = srcs] : srcs \in RpcSourceLists }
    \cup { [RpcBase EXCEPT !.control_mode = mode, !.pwm_min = lo] :
              mode \in {<<>>, <<" ", "USER">>, <<"auto">>},
              lo \in {<<>>, <<"2", "0">>, <<"3", "0", "0">>, <<"2", "x">>} }
    \cup { [RpcBase EXCEPT !.has_sources = FALSE, !.sources = <<>>],
           [RpcBase EXCEPT !.sources_is_array = FALSE, !.sources = <<>>],
           [RpcBase EXCEPT !.pwm_path = <<";">>, !.interval = <<"3", "0">>] }

\* The text of the configuration file before the command runs.
ApplyOldText == render_board_config_text(validate_text_config(TextBase).cfg)

ApplyInit ==
    /\ cfg = board_config("user", 0, 255, 64, 1, 2)
    /\ active = [id \in SourceIds |-> FALSE]
    /\ \E payload \in RpcPayloads :
           call = [fn |-> "stdin", payload |-> payload, rendered |-> <<>>,
                   config |-> ApplyOldText, temp |-> [exists |-> FALSE, text |-> <<>>],
                   left |-> 0, cut |-> FALSE, renames |-> 0, exit |-> -1]
    /\ Quiet

\* An exception reaches the handler of run(): the process returns 1.
ApplyThrow(c) == [c EXCEPT !.fn = "exit", !.exit = 1]

\* nlohmann::json::parse and the is_object test.
ApplyParse ==
    /\ call.fn = "stdin"
    /\ call' = IF call.payload.kind # "object" THEN ApplyThrow(call)
               ELSE [call EXCEPT !.fn = "parsed"]
    /\ UNCHANGED <<cfg, active, quietVars>>

\* render_board_config_from_rpc_json.
ApplyRender ==
    /\ call.fn = "parsed"
    /\ \E r \in {render_board_config_from_rpc_json(call.payload)} :
           call' = IF ~r.ok THEN ApplyThrow(call)
                   ELSE [call EXCEPT !.fn = "rendered", !.rendered = r.text]
    /\ UNCHANGED <<cfg, active, quietVars>>

\* mkstemp next to the configuration file.
ApplyMkstemp(ok) ==
    /\ call.fn = "rendered"
    /\ call' = IF ~ok THEN ApplyThrow(call)
               ELSE [call EXCEPT !.fn = "mkstemp", !.temp = [exists |-> TRUE, text |-> <<>>]]
    /\ UNCHANGED <<cfg, active, quietVars>>

\* The block of the std::ofstream: opened, written, tested with good() and
\* closed by the destructor. written lines reach the file; the stream is
\* good when the test sees no failure, and what the destructor flushes after
\* the test is not tested.
ApplyWrite(opened, good, written) ==
    /\ call.fn = "mkstemp"
    /\ call' = IF ~opened THEN [ApplyThrow(call) EXCEPT !.left = 1]
               ELSE IF ~good
               THEN [ApplyThrow(call) EXCEPT
                         !.temp.text = SubSeq(call.rendered, 1, written), !.left = 1]
               ELSE [call EXCEPT !.fn = "written",
                                 !.temp.text = SubSeq(call.rendered, 1, written),
                                 !.cut = written < Len(call.rendered)]
    /\ UNCHANGED <<cfg, active, quietVars>>

\* Faulty variant: a temporary file that the loader rejects is kept.
ApplyReload_unchecked ==
    /\ call.fn = "written"
    /\ call' = [call EXCEPT !.fn = "loaded"]
    /\ UNCHANGED <<cfg, active, quietVars>>

\* load_board_config on the temporary file; when it throws the file is
\* unlinked and the exception passed on.
ApplyReload ==
    /\ call.fn = "written"
    /\ call' = IF load_board_config(call.temp.text).ok THEN [call EXCEPT !.fn = "loaded"]
               ELSE [ApplyThrow(call) EXCEPT !.temp = [exists |-> FALSE, text |-> <<>>]]
    /\ UNCHANGED <<cfg, active, quietVars>>

\* chmod 0644 on the temporary file.
ApplyChmod(ok) ==
    /\ call.fn = "loaded"
    /\ call' = IF ok THEN [call EXCEPT !.fn = "chmod"]
               ELSE [ApplyThrow(call) EXCEPT !.temp = [exists |-> FALSE, text |-> <<>>]]
    /\ UNCHANGED <<cfg, active, quietVars>>

\* rename of the temporary file over the configuration file, and return 0.
ApplyRename(ok) ==
    /\ call.fn = "chmod"
    /\ call' = IF ok
               THEN [call EXCEPT !.fn = "exit", !.exit = 0, !.config = call.temp.text,
                                 !.temp = [exists |-> FALSE, text |-> <<>>],
                                 !.renames = @ + 1]
               ELSE [ApplyThrow(call) EXCEPT !.temp = [exists |-> FALSE, text |-> <<>>]]
    /\ UNCHANGED <<cfg, active, quietVars>>

ApplyNext ==
    \/ ApplyParse
    \/ ApplyRender
    \/ \E ok \in BOOLEAN : ApplyMkstemp(ok)
    \/ \E opened, good \in BOOLEAN : \E written \in 0..Len(call.rendered) :
           ApplyWrite(opened, good, written)
    \/ ApplyReload
    \/ \E ok \in BOOLEAN : ApplyChmod(ok)
    \/ \E ok \in BOOLEAN : ApplyRename(ok)

SpecApply == ApplyInit /\ [][ApplyNext]_vars

\* The payload names a source whose id, trimmed, holds a space.
IdWithSpace(payload) ==
    /\ payload.kind = "object"
    /\ payload.has_sources
    /\ \E i \in 1..Len(payload.sources) :
           LET id == sanitize_field(payload.sources[i].id)
           IN  \E k \in 1..Len(id) : id[k] = " "

\* The payload is no JSON object, or it is not rendered.
PayloadRejected(payload) ==
    \/ payload.kind # "object"
    \/ ~render_board_config_from_rpc_json(payload).ok

AppliedPayload ==
    /\ call.exit = 0
    /\ call.renames = 1
    /\ call.config = call.rendered
    /\ call.config # ApplyOldText

\* The text rendered from a valid payload is rejected when it is loaded from
\* the temporary file (a comma in a sysfs path): exit code 1, file unchanged.
RenderedPayloadRejectedOnReload ==
    /\ call.fn = "exit"
    /\ call.exit = 1
    /\ call.rendered # <<>>
    /\ ~load_board_config(call.rendered).ok
    /\ ~call.cut

\* A flush that failed unseen at the close of the stream: the configuration
\* file holds a part of the text rendered.
CutTextInstalled ==
    /\ call.renames = 1
    /\ call.config # call.rendered

\* A run that failed at the stream leaves its temporary file behind.
TempFileLeft ==
    /\ call.fn = "exit"
    /\ call.temp.exists

\* ---------------------------------------------------------------------------
\* Specification of sources whose every sample succeeds
\* ---------------------------------------------------------------------------
\* Accepted configurations: ttl == poll and ttl > poll for the ubus source,
\* with a poll interval of one and of two seconds.
HealthyConfigs ==
    { [board_config("user", 0, 255, 64, 1, ttl) EXCEPT !.sources["modem"].poll_sec = poll] :
          poll \in {1, 2}, ttl \in {2, 3} }
    \cup { board_config("user", 0, 255, 64, 1, 1) }

HealthyInit ==
    /\ cfg \in HealthyConfigs
    /\ now = 0
    /\ src = [id \in SourceIds |-> Unpolled]
    /\ unit = [id \in SourceIds |-> [pc |-> "wait", next_deadline |-> 0, start_ts |-> 0]]
    /\ failSince = [id \in SourceIds |-> -1]
    /\ active = [id \in SourceIds |-> FALSE]
    /\ nextTickAt = 0
    /\ lastTick = [done |-> FALSE, at |-> 0,
                   snaps |-> [id \in SourceIds |-> Unpolled],
                   preActive |-> [id \in SourceIds |-> FALSE],
                   failSince |-> [id \in SourceIds |-> -1],
                   decision |-> [target_pwm |-> 0, any_valid |-> FALSE,
                                 any_timeout |-> FALSE, critical |-> FALSE],
                   telemetry |-> [id \in SourceIds |-> NoDemand(FALSE)]]
    /\ staleRun = 0
    /\ DaemonIdle
    /\ call = NoCall

\* Every read and every remote call succeeds; a remote call takes any time
\* up to its timeout.
HealthyNext ==
    \/ \E id \in SourceIds, temp \in Temps : SampleSysfs(id, TRUE, temp)
    \/ \E id \in SourceIds : SampleBegin(id)
    \/ \E id \in SourceIds, temp \in Temps : SampleEnd(id, TRUE, temp)
    \/ Tick
    \/ Advance

SpecHealthy == HealthyInit /\ [][HealthyNext]_vars

\* The last tick found a successful sample of the source.
TickSawGood(id) ==
    /\ lastTick.done
    /\ lastTick.snaps[id].last_good_sample # NoSample

\* C35: a source whose every sample succeeds is not timed out in a tick that
\* follows its first successful sample.
C35_HealthySourceNeverStale ==
    \A id \in SourceIds : TickSawGood(id) => ~lastTick.telemetry[id].timeout

\* A healthy sysfs source, whose samples take no time, is never timed out.
HealthySysfsNeverStale ==
    \A id \in SourceIds :
        (TickSawGood(id) /\ cfg.sources[id].type = "sysfs") =>
            ~lastTick.telemetry[id].timeout

\* A healthy source whose ttl_sec covers two poll intervals (a call that
\* lasts a whole interval makes the unit skip a deadline) and the timeout of
\* the remote call is never timed out.
HealthyWithSlackNeverStale ==
    \A id \in SourceIds :
        (/\ TickSawGood(id)
         /\ cfg.sources[id].ttl_sec * TicksPerSec
                >= 2 * PollTicks(id) + ubus_timeout(cfg.sources[id].poll_sec)) =>
            ~lastTick.telemetry[id].timeout

\* ttl_sec == poll_sec == 2: the tick at three seconds finds the sample
\* stamped at zero older than ttl_sec while the call that began at two
\* seconds, within its timeout, has not returned yet.
SlowCallFoundStale ==
    /\ cfg.sources["modem"].poll_sec = 2
    /\ cfg.sources["modem"].ttl_sec = 2
    /\ TickSawGood("modem")
    /\ lastTick.telemetry["modem"].timeout
    /\ lastTick.decision.any_timeout
    /\ unit["modem"].pc = "sampling"
    /\ lastTick.at - unit["modem"].start_ts < ubus_timeout(2)

\* ---------------------------------------------------------------------------
\* Specification of run() from the installation of the signal handlers to the
\* return of run_board_mode, with signals delivered at every position
\* ---------------------------------------------------------------------------
\* Cap of the counter of ticks of the run.
MaxRunTicks == 3

RunInit ==
    /\ cfg = board_config("user", 0, 255, 64, 1, 2)
    /\ active = [id \in SourceIds |-> FALSE]
    /\ call = [fn |-> "run", g_stop |-> 0, g_restore_status |-> 0, exit_code |-> -1,
               \* history
               delivered |-> "none",  \* last signal delivered
               kept |-> "none",       \* last signal delivered after g_stop was cleared
               entered |-> "none",    \* signal delivered before the loop body was entered
               enteredKept |-> "none",
               ticks |-> 0]
    /\ Quiet

\* std::signal for the four signals.
RunInstall ==
    /\ call.fn = "run"
    /\ call' = [call EXCEPT !.fn = "installed"]
    /\ UNCHANGED <<cfg, active, quietVars>>

\* on_signal, at any position between the installation of the handlers and
\* the return statement of run_board_mode.
RunSignal(sig) ==
    /\ call.fn \notin {"run", "exit"}
    /\ call' = [call EXCEPT !.g_restore_status = on_signal_status(sig),
                            !.g_stop = 1,
                            !.delivered = sig,
                            !.kept = IF call.fn \in {"installed"} THEN @ ELSE sig]
    /\ UNCHANGED <<cfg, active, quietVars>>

\* The options of the command line are tested and the path of the
\* configuration picked and printed; then g_stop = 0.
RunClearStop ==
    /\ call.fn = "installed"
    /\ call' = [call EXCEPT !.fn = "stop_cleared", !.g_stop = 0]
    /\ UNCHANGED <<cfg, active, quietVars>>

\* g_restore_status = 0.
RunClearStatus ==
    /\ call.fn = "stop_cleared"
    /\ call' = [call EXCEPT !.fn = "cleared", !.g_restore_status = 0]
    /\ UNCHANGED <<cfg, active, quietVars>>

\* load_board_config; an exception is caught by run(), which returns 1.
RunLoad(ok) ==
    /\ call.fn = "cleared"
    /\ call' = IF ok THEN [call EXCEPT !.fn = "loaded"]
               ELSE [call EXCEPT !.fn = "exit", !.exit_code = 1]
    /\ UNCHANGED <<cfg, active, quietVars>>

\* run_board_mode up to its loop: the access checks, BoardOwnershipGuard,
\* the sources, the startup write of the PWM and the start of the manager.
RunAcquire(ok) ==
    /\ call.fn = "loaded"
    /\ call' = IF ok THEN [call EXCEPT !.fn = "loop"]
               ELSE [call EXCEPT !.fn = "exit", !.exit_code = 1]
    /\ UNCHANGED <<cfg, active, quietVars>>

\* while (!g_stop)
RunLoopTest ==
    /\ call.fn = "loop"
    /\ call' = IF call.g_stop = 0
               THEN [call EXCEPT !.fn = "body", !.entered = call.delivered,
                                 !.enteredKept = call.kept]
               ELSE [call EXCEPT !.fn = "return"]
    /\ UNCHANGED <<cfg, active, quietVars>>

\* The body of the loop up to the sleep; an exception ends the process with 1.
RunBody(ok) ==
    /\ call.fn = "body"
    /\ call' = IF ok THEN [call EXCEPT !.fn = "sleep", !.ticks = Min2(@ + 1, MaxRunTicks)]
               ELSE [call EXCEPT !.fn = "exit", !.exit_code = 1]
    /\ UNCHANGED <<cfg, active, quietVars>>

\* The sleep of the tick, one second at a time while g_stop is 0.
RunSleep ==
    /\ call.fn = "sleep"
    /\ call' = [call EXCEPT !.fn = "loop"]
    /\ UNCHANGED <<cfg, active, quietVars>>

\* return (g_restore_status == 0) ? 0 : 1
RunReturn ==
    /\ call.fn = "return"
    /\ call' = [call EXCEPT !.fn = "exit",
                            !.exit_code = IF call.g_restore_status = 0 THEN 0 ELSE 1]
    /\ UNCHANGED <<cfg, active, quietVars>>

RunNext ==
    \/ RunInstall
    \/ \E sig \in Signals : RunSignal(sig)
    \/ RunClearStop
    \/ RunClearStatus
    \/ \E ok \in BOOLEAN : RunLoad(ok)
    \/ \E ok \in BOOLEAN : RunAcquire(ok)
    \/ RunLoopTest
    \/ \E ok \in BOOLEAN : RunBody(ok)
    \/ RunSleep
    \/ RunReturn

SpecRun == RunInit /\ [][RunNext]_vars

\* C36: the body of the control loop is not entered once a signal has been
\* delivered to the installed handlers.
C36_SignalNotLost == call.entered = "none"

\* The body of the loop is not entered once a signal has been delivered after
\* g_stop = 0 has run: during the load of the configuration, the acquisition
\* of the ownership, or the loop.
SignalAfterClearNotLost == call.enteredKept = "none"

\* A signal delivered before g_stop = 0 has run: the loop runs its ticks.
EarlySignalLost ==
    /\ call.delivered = "SIGTERM"
    /\ call.kept = "none"
    /\ call.fn = "sleep"
    /\ call.ticks >= 2
    /\ call.g_stop = 0

\* A signal delivered during the load of the configuration ends the process
\* before the first tick.
SignalDuringLoadStops ==
    /\ call.fn = "exit"
    /\ call.kept = "SIGHUP"
    /\ call.ticks = 0
    /\ call.exit_code = 1

====
